---- MODULE Spec2Model ----
(***************************************************************************)
(* Model of the realtime quiz backend (backend-python/app): the in-memory  *)
(* hub (ws/hub.py), the websocket command handler (ws/game_handler.py) and *)
(* the scoring helpers (services/scoring.py), together with the rows of    *)
(* the database the handlers read and write.                               *)
(*                                                                         *)
(* One event is modelled.  A client is named by the id it sends in its     *)
(* join message; that id is at once the key of its EventParticipant row,   *)
(* the id compared with Event.host_id and the id compared with             *)
(* Segment.presenter_user_id, as the handler itself compares one user_id   *)
(* with all three.  Times are in microseconds (the resolution of Python's  *)
(* datetime); NoTime stands for None.                                      *)
(*                                                                         *)
(* The frames a handler writes are a function of the state it starts from  *)
(* and of its message: each handler H has an operator HFrames next to its  *)
(* action.  A frame addressed to "all" is a hub.broadcast.                 *)
(*                                                                         *)
(* Spec runs every handler to completion before the next one starts.       *)
(* SpecAsync splits the answer and next_question handlers at their awaits  *)
(* on the database, where the event loop may run another connection's      *)
(* handler.  SpecFn applies the admission and scoring functions to inputs  *)
(* drawn from FnInputs.                                                     *)
(***************************************************************************)
EXTENDS Integers, Sequences, FiniteSets, TLC

\* ------------------------------------------------------------------ bounds
\* join-as-host requests and display-name changes that SpecJoin lets through
MaxHostJoins == 1
MaxRenames == 1
\* anonymous join requests, and changes of an event (join lock, status) that
\* SpecJoin lets through
MaxJoins == 2
MaxEventChanges == 2
\* number of questions of the first segment
NumQuestions == 2
\* number of start_game commands that the model lets through
MaxGames == 1
\* number of interventions (a connection drop, a presenter assignment by the
\* host, a presenter handoff, a skip of the mega quiz) that the model lets
\* through
MaxInterventions == 1
\* number of connection drops that SpecConn lets through
MaxDrops == 2

\* ---------------------------------------------------------- program values
Users == {"h", "p", "a"}
NoUser == "none"
HostId == "h"
Segs == {"s1", "s2"}
NoSeg == "none"
NoQuestion == 0
NoTime == -1
Answers == {"A", "B"}
\* the clients that send answers
Players == {"a"}

\* the instants at which the model lets something happen (microseconds):
\* the start, and the first instant at which an answer to a question shown
\* at the start is past its deadline
Instants == {0, 30500000}

\* Event.time_per_question, seconds
time_per_question == 30
\* Settings.answer_timeout_grace_ms
answer_timeout_grace_ms == 500

\* the Question rows of a segment, ordered by order_index
SegQuestions(s) ==
    IF s = "s1"
    THEN [i \in 1..NumQuestions |->
            [id |-> i, correct_answer |-> IF i % 2 = 1 THEN "A" ELSE "B"]]
    ELSE << >>

VARIABLES
    now,                \* wall clock, datetime.now(timezone.utc)
    user_id,            \* websocket_event's local user_id, per client
    connections,        \* EventSession.connections (its keys)
    connection_states,  \* EventSession.connection_states
    game_state,         \* EventSession.game_state
    participant_rows,   \* table event_participants
    segment_scores,     \* table segment_scores, keyed by <<segment, participant>>
    segments,           \* table segments
    used,               \* how many of the bounded commands have been let through
    q_opened_at,        \* history: when the current question was first shown
    inflight,           \* SpecAsync: position and locals of a suspended handler
    fn_args,            \* SpecFn: arguments of the pure functions
    fn_out,             \* SpecFn: their results
    broadcasting,       \* SpecHub: the call of Hub.broadcast in progress
    events,             \* the events table: status and join lock of each event
    event_participants, \* the event_participants table, in order of insertion
    join_requests,      \* the HTTP requests in flight
    event_locks         \* JoinQueue._event_locks: the holder of each event's lock

vars == << now, user_id, connections, connection_states, game_state,
           participant_rows, segment_scores, segments, used,
           q_opened_at, inflight, fn_args, fn_out, broadcasting,
           events, event_participants, join_requests, event_locks >>

dbvars == << participant_rows, segment_scores, segments >>
hubvars == << user_id, connections, connection_states, game_state >>
joinvars == << events, event_participants, join_requests, event_locks >>
auxvars == << inflight, fn_args, fn_out, broadcasting, joinvars >>

\* ------------------------------------------------------------------ frames
Frame(to, type, a, n, m) == [to |-> to, type |-> type, a |-> a, n |-> n, m |-> m]
\* websocket.send_json(ErrorMessage(...)) to the caller's own socket
ErrorFrame(c, why) == Frame(c, "error", why, 0, 0)
\* hub.broadcast(event_uuid, ...)
Bcast(type, a, n, m) == Frame("all", type, a, n, m)
PhaseChanged(phase, index, total) == Bcast("phase_changed", phase, index, total)

\* --------------------------------------------------------------- GameState
InitGameState ==
    [ current_segment_id |-> NoSeg,
      current_presenter_id |-> NoUser,
      current_question_id |-> NoQuestion,
      current_question_index |-> 0,
      question_started_at |-> NoTime,
      time_limit_seconds |-> 30,
      quiz_phase |-> "not_started",
      presenter_paused |-> FALSE,
      presenter_pause_reason |-> "none",
      questions |-> << >>,
      participants |-> << >>,
      answers_received |-> << >>,
      total_questions |-> 0,
      scored_question_ids |-> {} ]

ParticipantInfo(join_status, is_late_joiner, joined_at) ==
    [ join_status |-> join_status, is_late_joiner |-> is_late_joiner,
      joined_at |-> joined_at, online |-> TRUE ]

\* a function with one key set or replaced (dict[key] = value)
Put(f, k, v) == [x \in DOMAIN f \cup {k} |-> IF x = k THEN v ELSE f[x]]

\* a connection whose handler waits for its next message
IdleHandler ==
    [ pc |-> "idle", segment_id |-> NoSeg, question_id |-> NoQuestion,
      todo |-> {}, delta_score |-> 0, is_correct |-> FALSE,
      response_time_ms |-> 0 ]

EmptyInflight == [u \in Users |-> IdleHandler]

\* SpecFn: no function applied yet
FnIdle ==
    [ op |-> "none", reason |-> "none", answers_received |-> << >>,
      response_time_ms |-> 0, delta_score |-> 0 ]

NoArgs ==
    [ elapsed_us |-> 0, time_limit_seconds |-> 30, started_at |-> 0,
      selected_answer |-> "A" ]

\* the events a device may join, the devices and the HTTP requests in flight
JoinEvents == {"e1", "e2"}
Devices == {"d1", "d2"}
Requests == {"r1", "r2"}

\* an event as create_event inserts it
NewEvent ==
    [ status |-> "waiting", previous_status |-> "none",
      join_locked |-> FALSE, join_locked_at |-> NoTime ]

\* no request in its slot
IdleRequest ==
    [ pc |-> "idle", event_id |-> "none", device_id |-> "none",
      display_name |-> << >>, locked_out |-> FALSE, participant_id |-> 0 ]

NewRow(status, late, t) ==
    [ total_score |-> 0, total_response_time_ms |-> 0,
      join_status |-> status, is_late_joiner |-> late, join_timestamp |-> t ]

\* the clients that are connected when the model starts
Staff == {"h", "p"}

\* the event as its host has set it up (the rows of the host and of the
\* presenter of the first segment, two segments), once the host and the
\* presenter have opened their websockets and joined, before any quiz
InitSession ==
    /\ now = 0
    /\ user_id = [c \in Users |-> IF c \in Staff THEN c ELSE NoUser]
    /\ connections = Staff
    /\ connection_states =
          [u \in Users |-> IF u \in Staff THEN "connected" ELSE "none"]
    /\ game_state =
          [InitGameState EXCEPT
             !.participants = [u \in Staff |-> ParticipantInfo("joined", FALSE, 0)]]
    /\ participant_rows = [u \in Staff |-> NewRow("joined", FALSE, 0)]
    /\ segment_scores = << >>
    /\ segments = [s \in Segs |->
                     [ presenter_user_id |-> IF s = "s1" THEN "p" ELSE NoUser,
                       status |-> "quiz_ready" ]]
    /\ used = [games |-> 0, interventions |-> 0, drops |-> 0,
               host_joins |-> 0, renames |-> 0, joins |-> 0,
               event_changes |-> 0]
    /\ event_participants = << >>
    /\ join_requests = [r \in Requests |-> IdleRequest]
    /\ event_locks = [e \in JoinEvents |-> "none"]
    /\ q_opened_at = NoTime
    /\ inflight = EmptyInflight

\* no call of Hub.broadcast is in progress
NoBroadcasting ==
    [ pc |-> "idle", lock |-> "free", snapshot |-> {}, pending |-> {},
      sent |-> [u \in Users |-> 0], delivered |-> {},
      disconnected |-> {}, failed |-> {} ]

Init ==
    /\ InitSession
    /\ fn_args = NoArgs
    /\ fn_out = FnIdle
    /\ broadcasting = NoBroadcasting
    /\ events = [e \in JoinEvents |-> NewEvent]

\* -------------------------------------------------------------------- time
Tick ==
    /\ \E t \in Instants : t > now /\ now' = t
    /\ UNCHANGED << hubvars, dbvars, used, q_opened_at, auxvars >>

\* ----------------------------------------------------------------- scoring
\* a variant of calculate_speed_based_score that rounds to the nearest point
calculate_speed_based_score_rounded(time_limit_ms, response_time_ms) ==
    IF response_time_ms >= time_limit_ms
    THEN 1
    ELSE LET remaining_time == time_limit_ms - response_time_ms
             score == (1000 * remaining_time + time_limit_ms \div 2) \div time_limit_ms
             capped == IF score < 1000 THEN score ELSE 1000
         IN  IF capped > 1 THEN capped ELSE 1

\* int(1000 * remaining_time / time_limit_ms): the quotient is positive, so
\* truncation is the floor
calculate_speed_based_score(time_limit_ms, response_time_ms) ==
    IF response_time_ms >= time_limit_ms
    THEN 1
    ELSE LET remaining_time == time_limit_ms - response_time_ms
             score == (1000 * remaining_time) \div time_limit_ms
             capped == IF score < 1000 THEN score ELSE 1000
         IN  IF capped > 1 THEN capped ELSE 1

\* the database as the scoring helpers see it
Db == [segment_scores |-> segment_scores, participant_rows |-> participant_rows]

NewSegmentScore ==
    [score |-> 0, questions_answered |-> 0, questions_correct |-> 0,
     total_response_time_ms |-> 0]

\* fetch or create the SegmentScore row
upsert_segment_score(db, segment_id, participant_id) ==
    IF << segment_id, participant_id >> \in DOMAIN db.segment_scores
    THEN db
    ELSE [db EXCEPT !.segment_scores =
              Put(@, << segment_id, participant_id >>, NewSegmentScore)]

\* a variant of apply_score that leaves the event total alone
apply_score_segment_only(db, segment_id, participant_id, delta_score, is_correct, response_time_ms) ==
    LET db1 == upsert_segment_score(db, segment_id, participant_id)
        key == << segment_id, participant_id >>
        old == db1.segment_scores[key]
        new == [ score |-> old.score + delta_score,
                 questions_answered |-> old.questions_answered + 1,
                 questions_correct |->
                     old.questions_correct + (IF is_correct THEN 1 ELSE 0),
                 total_response_time_ms |->
                     old.total_response_time_ms
                       + (IF response_time_ms # NoTime THEN response_time_ms ELSE 0) ]
    IN  [db1 EXCEPT !.segment_scores = Put(@, key, new)]

\* response_time_ms = NoTime stands for None
apply_score(db, segment_id, participant_id, delta_score, is_correct, response_time_ms) ==
    LET db1 == upsert_segment_score(db, segment_id, participant_id)
        key == << segment_id, participant_id >>
        old == db1.segment_scores[key]
        new == [ score |-> old.score + delta_score,
                 questions_answered |-> old.questions_answered + 1,
                 questions_correct |->
                     old.questions_correct + (IF is_correct THEN 1 ELSE 0),
                 total_response_time_ms |->
                     old.total_response_time_ms
                       + (IF response_time_ms # NoTime THEN response_time_ms ELSE 0) ]
        db2 == [db1 EXCEPT !.segment_scores = Put(@, key, new)]
    IN  IF participant_id \in DOMAIN db2.participant_rows
        THEN [db2 EXCEPT
                !.participant_rows[participant_id].total_score = @ + delta_score,
                !.participant_rows[participant_id].total_response_time_ms =
                    @ + (IF response_time_ms # NoTime THEN response_time_ms ELSE 0)]
        ELSE db2

\* the elapsed times, among those the model draws, for which the float
\* product total_seconds() * 1000 falls just below the whole number of
\* milliseconds (1.001 * 1000 = 1000.9999999999999)
FloatShort == {1001000, 2002000}

\* int(delta.total_seconds() * 1000) of a timedelta of us microseconds
ms_of_timedelta(us) ==
    IF us \in FloatShort THEN us \div 1000 - 1 ELSE us \div 1000

\* max(0, int((submitted_at - question_started_at).total_seconds() * 1000))
calculate_response_time_ms(question_started_at, submitted_at) ==
    LET ms == ms_of_timedelta(submitted_at - question_started_at)
    IN  IF ms > 0 THEN ms ELSE 0

\* the delta_score of _score_answer_submission
answer_delta_score(gs, selected_answer, submitted_at) ==
    LET question_data == gs.questions[gs.current_question_index + 1]
        time_limit_ms == gs.time_limit_seconds * 1000
        response_time_ms ==
            calculate_response_time_ms(gs.question_started_at, submitted_at)
    IN  IF selected_answer = question_data.correct_answer
        THEN calculate_speed_based_score(time_limit_ms, response_time_ms)
        ELSE 0

\* _score_answer_submission: the database after scoring the answer
score_answer_submission(db, gs, participant_id, selected_answer, submitted_at) ==
    IF \/ gs.questions = << >>
       \/ gs.current_question_index >= Len(gs.questions)
       \/ gs.question_started_at = NoTime
       \/ gs.current_segment_id = NoSeg
    THEN db
    ELSE LET question_data == gs.questions[gs.current_question_index + 1]
         IN  apply_score(db, gs.current_segment_id, participant_id,
                         answer_delta_score(gs, selected_answer, submitted_at),
                         selected_answer = question_data.correct_answer,
                         calculate_response_time_ms(gs.question_started_at,
                                                    submitted_at))

\* --------------------------------------------------------------------- hub
\* elapsed_ms = int(elapsed * 1000)
elapsed_ms(gs, submission_time) ==
    ms_of_timedelta(submission_time - gs.question_started_at)

\* a variant of too_late that still admits an answer at the deadline itself
too_late_strict(gs, submission_time) ==
    LET time_limit_ms == gs.time_limit_seconds * 1000
        grace_ms == IF answer_timeout_grace_ms > 0 THEN answer_timeout_grace_ms ELSE 0
    IN  elapsed_ms(gs, submission_time) > time_limit_ms + grace_ms

\* the admission deadline of Hub.record_answer
too_late(gs, submission_time) ==
    LET time_limit_ms == gs.time_limit_seconds * 1000
        grace_ms == IF answer_timeout_grace_ms > 0 THEN answer_timeout_grace_ms ELSE 0
    IN  elapsed_ms(gs, submission_time) >= time_limit_ms + grace_ms

\* a variant of record_answer_reason without the duplicate check
record_answer_reason_no_duplicate(gs, u, submitted_at) ==
    IF gs.presenter_paused THEN "paused"
    ELSE IF gs.question_started_at = NoTime THEN "no_question"
    ELSE IF /\ u \in DOMAIN gs.participants
            /\ gs.participants[u].joined_at # NoTime
            /\ gs.participants[u].joined_at > gs.question_started_at
         THEN "late_join"
    ELSE IF too_late(gs, submitted_at) THEN "too_late"
    ELSE "ok"

\* a variant of record_answer_reason without the pause check
record_answer_reason_no_pause(gs, u, submitted_at) ==
    IF gs.question_started_at = NoTime THEN "no_question"
    ELSE IF /\ u \in DOMAIN gs.participants
            /\ gs.participants[u].joined_at # NoTime
            /\ gs.participants[u].joined_at > gs.question_started_at
         THEN "late_join"
    ELSE IF u \in DOMAIN gs.answers_received THEN "duplicate"
    ELSE IF too_late(gs, submitted_at) THEN "too_late"
    ELSE "ok"

\* a variant of record_answer_reason that checks the deadline before the
\* duplicate
record_answer_reason_deadline_first(gs, u, submitted_at) ==
    IF gs.presenter_paused THEN "paused"
    ELSE IF gs.question_started_at = NoTime THEN "no_question"
    ELSE IF /\ u \in DOMAIN gs.participants
            /\ gs.participants[u].joined_at # NoTime
            /\ gs.participants[u].joined_at > gs.question_started_at
         THEN "late_join"
    ELSE IF too_late(gs, submitted_at) THEN "too_late"
    ELSE IF u \in DOMAIN gs.answers_received THEN "duplicate"
    ELSE "ok"

\* Hub.record_answer: "ok" or the error_reason
record_answer_reason(gs, u, submitted_at) ==
    IF gs.presenter_paused THEN "paused"
    ELSE IF gs.question_started_at = NoTime THEN "no_question"
    ELSE IF /\ u \in DOMAIN gs.participants
            /\ gs.participants[u].joined_at # NoTime
            /\ gs.participants[u].joined_at > gs.question_started_at
         THEN "late_join"
    ELSE IF u \in DOMAIN gs.answers_received THEN "duplicate"
    ELSE IF too_late(gs, submitted_at) THEN "too_late"
    ELSE "ok"

\* Hub.record_answer: the game state it leaves
record_answer(gs, u, answer, submitted_at) ==
    IF record_answer_reason(gs, u, submitted_at) = "ok"
    THEN [gs EXCEPT !.answers_received = Put(@, u, answer)]
    ELSE gs


\* a command whose branch is guarded by "and user_id", from a connection
\* that has not joined: no branch of the handler matches
Ignored == UNCHANGED vars

\* the frames of the answer branch
AnswerFrames(c, question_id, selected_answer) ==
    IF user_id[c] = NoUser THEN << >>
    ELSE IF question_id # game_state.current_question_id
    THEN << ErrorFrame(c, "stale") >>
    ELSE IF record_answer_reason(game_state, user_id[c], now) = "ok"
    THEN << Bcast("answer_received", user_id[c], 0, 0) >>
    ELSE << ErrorFrame(c, record_answer_reason(game_state, user_id[c], now)) >>

\* whether the answer branch admits the answer
answer_admitted(c, question_id) ==
    /\ user_id[c] # NoUser
    /\ question_id = game_state.current_question_id
    /\ record_answer_reason(game_state, user_id[c], now) = "ok"

\* the game state and the database the answer branch leaves
answer_outcome(c, question_id, selected_answer) ==
    IF answer_admitted(c, question_id)
    THEN LET gs == record_answer(game_state, user_id[c], selected_answer, now)
         IN  [ gs |-> gs,
               db |-> score_answer_submission(Db, gs, user_id[c],
                                              selected_answer, now) ]
    ELSE [ gs |-> game_state, db |-> Db ]

\* the answer branch of websocket_event
Answer(c, question_id, selected_answer) ==
    IF user_id[c] = NoUser THEN Ignored
    ELSE IF answer_admitted(c, question_id)
    THEN /\ game_state' = answer_outcome(c, question_id, selected_answer).gs
         /\ segment_scores' =
               answer_outcome(c, question_id, selected_answer).db.segment_scores
         /\ participant_rows' =
               answer_outcome(c, question_id, selected_answer).db.participant_rows
         /\ UNCHANGED << now, user_id, connections, connection_states,
                         segments, used, q_opened_at, auxvars >>
    ELSE UNCHANGED vars

\* ------------------------------------------------------------- HTTP join
\* routes/join.py _execute_join, new participant: the join status it derives
\* from the segment statuses and the quiz phase
initial_join_status ==
    IF /\ \E s \in Segs : segments[s].status = "quizzing"
       /\ game_state.quiz_phase \in {"showing_leaderboard", "between_questions",
                                     "showing_question", "revealing_answer"}
    THEN "waiting_for_segment"
    ELSE "joined"

\* the EventParticipant row is created; its join_timestamp is the time of
\* the request
HttpJoin(u) ==
    /\ u \notin DOMAIN participant_rows
    /\ participant_rows' =
          Put(participant_rows, u,
              NewRow(initial_join_status,
                     initial_join_status = "waiting_for_segment", now))
    /\ UNCHANGED << now, hubvars, segment_scores, segments, used,
                    q_opened_at, auxvars >>

\* -------------------------------------------------------------- websocket
\* the frames of one resumed question
ResumeFrames(gs) ==
    IF gs.questions # << >> /\ gs.current_question_index < Len(gs.questions)
    THEN << PhaseChanged("showing_question", gs.current_question_index,
                         gs.total_questions),
            Bcast("question", "", gs.current_question_index, gs.total_questions) >>
    ELSE << >>

\* a variant of resume_question that leaves the question clock unset
resume_question_keep_clock(gs, t) ==
    LET g == [gs EXCEPT !.presenter_paused = FALSE,
                        !.presenter_pause_reason = "none",
                        !.quiz_phase = "showing_question"]
    IN  IF g.questions # << >> /\ g.current_question_index < Len(g.questions)
        THEN [g EXCEPT !.current_question_id =
                          g.questions[g.current_question_index + 1].id]
        ELSE g

\* the body shared by the two resume blocks of the join branch
resume_question(gs, t) ==
    LET g == [gs EXCEPT !.presenter_paused = FALSE,
                        !.presenter_pause_reason = "none",
                        !.quiz_phase = "showing_question",
                        !.question_started_at = t]
    IN  IF g.questions # << >> /\ g.current_question_index < Len(g.questions)
        THEN [g EXCEPT !.current_question_id =
                          g.questions[g.current_question_index + 1].id]
        ELSE g

\* a variant of resumes_for_participants that looks for the other pause reason
resumes_for_participants_all_disconnected(gs, conns) ==
    /\ gs.presenter_paused
    /\ gs.presenter_pause_reason = "all_disconnected"
    /\ Cardinality(conns) > 0
    /\ gs.questions # << >>

\* first resume block: the quiz waited for participants
resumes_for_participants(gs, conns) ==
    /\ gs.presenter_paused
    /\ gs.presenter_pause_reason = "no_participants"
    /\ Cardinality(conns) > 0
    /\ gs.questions # << >>

\* second resume block: the presenter is back
resumes_for_presenter(gs, u) ==
    /\ gs.presenter_paused
    /\ gs.current_presenter_id = u

\* the game state after Hub.add_participant, before the resume blocks
joined_state(c) ==
    LET row == participant_rows[c]
        is_question_active ==
            /\ game_state.quiz_phase = "showing_question"
            /\ game_state.question_started_at # NoTime
    IN  [game_state EXCEPT !.participants =
            Put(@, c, ParticipantInfo(row.join_status,
                                      row.is_late_joiner \/ is_question_active,
                                      row.join_timestamp))]

\* the game state after the first resume block
joined_state_1(c) ==
    IF resumes_for_participants(joined_state(c), connections \cup {c})
    THEN resume_question(joined_state(c), now)
    ELSE joined_state(c)

\* the game state after the second resume block
joined_state_2(c) ==
    IF resumes_for_presenter(joined_state_1(c), c)
    THEN resume_question(joined_state_1(c), now)
    ELSE joined_state_1(c)

\* the frames of the join branch
JoinFrames(c) ==
    << Frame(c, "connected", "", 0, 0) >>
    \o (IF connection_states[c] = "temporarily_disconnected"
        THEN << Frame(c, "state_restored",
                      IF c \in DOMAIN game_state.answers_received
                      THEN game_state.answers_received[c] ELSE "none",
                      participant_rows[c].total_score, 0) >>
        ELSE << Bcast("participant_joined", c, 0, 0) >>)
    \o (IF resumes_for_participants(joined_state(c), connections \cup {c})
        THEN ResumeFrames(joined_state_1(c)) ELSE << >>)
    \o (IF resumes_for_presenter(joined_state_1(c), c)
        THEN ResumeFrames(joined_state_2(c)) ELSE << >>)

\* the join branch of websocket_event (Hub.connect / Hub.reconnect,
\* Hub.add_participant and the two resume blocks), for a client that has
\* joined over HTTP: the participant is hydrated from its row
Join(c) ==
    /\ c \in DOMAIN participant_rows
    /\ user_id' = [user_id EXCEPT ![c] = c]
    /\ connections' = connections \cup {c}
    /\ connection_states' = [connection_states EXCEPT ![c] = "connected"]
    /\ game_state' = joined_state_2(c)
    /\ q_opened_at' =
          IF /\ q_opened_at = NoTime
             /\ joined_state_2(c).question_started_at # NoTime
          THEN now ELSE q_opened_at
    /\ UNCHANGED << now, dbvars, used, auxvars >>

\* a variant of Hub.disconnect that drops the answer of the participant too
hub_disconnect_forgets_answer(gs, u) ==
    LET g == IF u \in DOMAIN gs.participants
             THEN [gs EXCEPT !.participants[u].online = FALSE]
             ELSE gs
    IN  [g EXCEPT !.answers_received =
            [x \in DOMAIN g.answers_received \ {u} |-> g.answers_received[x]]]

\* Hub.disconnect(permanent=False)
hub_disconnect(gs, u) ==
    IF u \in DOMAIN gs.participants
    THEN [gs EXCEPT !.participants[u].online = FALSE]
    ELSE gs

\* the pause of the session
pause(gs, reason) ==
    [gs EXCEPT !.presenter_paused = TRUE,
               !.presenter_pause_reason = reason,
               !.quiz_phase = "presenter_paused",
               !.question_started_at = NoTime]

PausedFrames(gs, reason) ==
    << Bcast("presenter_paused", reason, gs.current_question_index,
             gs.total_questions),
       PhaseChanged("presenter_paused", gs.current_question_index,
                    gs.total_questions) >>

\* whether the connection lost is the presenter's
presenter_lost(u) ==
    /\ game_state.current_presenter_id = u
    /\ game_state.current_segment_id # NoSeg
    /\ u \in DOMAIN participant_rows

\* the game state after the presenter pause and Hub.disconnect
dropped_state(u) ==
    hub_disconnect(IF presenter_lost(u)
                   THEN pause(game_state, "presenter_disconnected")
                   ELSE game_state, u)

\* whether the last connection of a running quiz is gone
all_disconnected(u) ==
    /\ dropped_state(u).quiz_phase \notin {"not_started", "event_complete",
                                           "mega_quiz_ready"}
    /\ Cardinality(connections \ {u}) = 0

\* the frames of the WebSocketDisconnect branch
DisconnectFrames(c) ==
    LET u == user_id[c]
    IN  (IF presenter_lost(u)
         THEN PausedFrames(game_state, "presenter_disconnected")
              \o (IF HostId \in connections
                  THEN << Frame(HostId, "presenter_override_needed", u, 0, 0),
                          Frame(HostId, "presenter_disconnected", u, 0, 0) >>
                  ELSE << >>)
         ELSE << >>)
        \o << Bcast("participant_left", u, 0, 0) >>
        \o (IF all_disconnected(u)
            THEN PausedFrames(dropped_state(u), "all_disconnected") ELSE << >>)

\* the WebSocketDisconnect branch of websocket_event
Dropped(c) ==
    /\ user_id[c] # NoUser
    /\ game_state' = IF all_disconnected(user_id[c])
                     THEN pause(dropped_state(user_id[c]), "all_disconnected")
                     ELSE dropped_state(user_id[c])
    /\ connections' = connections \ {user_id[c]}
    /\ connection_states' =
          [connection_states EXCEPT ![user_id[c]] = "temporarily_disconnected"]
    /\ user_id' = [user_id EXCEPT ![c] = NoUser]
    /\ UNCHANGED << now, dbvars, q_opened_at, auxvars >>

\* a connection drop, counted as an intervention
Disconnect(c) ==
    /\ Dropped(c)
    /\ used.interventions < MaxInterventions
    /\ used' = [used EXCEPT !.interventions = @ + 1]

\* a connection drop, counted on its own
DisconnectAgain(c) ==
    /\ Dropped(c)
    /\ used.drops < MaxDrops
    /\ used' = [used EXCEPT !.drops = @ + 1]

\* ------------------------------------------------------- control commands
\* _can_control_segment(event, segment, user_id)
can_control_segment(segment, u) ==
    HostId = u \/ segment.presenter_user_id = u

\* the authorization test of next_question, reveal_answer, show_leaderboard
\* and end_game: event row, segment row of the current segment, and
\* _can_control_segment
may_control_current(gs, segs, u) ==
    /\ gs.current_segment_id # NoSeg
    /\ can_control_segment(segs[gs.current_segment_id], u)

\* segments of the event by order_index
SegOrder == << "s1", "s2" >>

\* _get_active_segment_with_event: the first segment that has a question
active_segment_with_event ==
    LET with_questions == {i \in 1..Len(SegOrder) : SegQuestions(SegOrder[i]) # << >>}
    IN  IF with_questions = {} THEN NoSeg
        ELSE SegOrder[CHOOSE i \in with_questions : \A j \in with_questions : i <= j]

\* a variant of zero_fill_targets that does not skip the participants who
\* answered
zero_fill_targets_answered_too(gs) ==
    {u \in DOMAIN gs.participants :
        gs.participants[u].join_status # "segment_complete"}

\* the participants _apply_zero_scores_for_unanswered gives a zero to
zero_fill_targets(gs) ==
    {u \in DOMAIN gs.participants :
        /\ gs.participants[u].join_status # "segment_complete"
        /\ u \notin DOMAIN gs.answers_received}

\* the participants the session holds in waiting_for_segment
waiting_for_segment(gs) ==
    {u \in DOMAIN gs.participants :
        gs.participants[u].join_status = "waiting_for_segment"}

RECURSIVE zero_fill_rows(_, _, _, _)
\* the loop of _apply_zero_scores_for_unanswered over the database; waiting
\* holds the participants whose session entry is in waiting_for_segment
zero_fill_rows(db, segment_id, todo, waiting) ==
    IF todo = {} THEN db
    ELSE LET u == CHOOSE x \in todo : TRUE
             db1 == apply_score(db, segment_id, u, 0, FALSE, NoTime)
             db2 == IF u \in waiting /\ u \in DOMAIN db1.participant_rows
                    THEN [db1 EXCEPT !.participant_rows[u].join_status = "active_in_quiz"]
                    ELSE db1
         IN  zero_fill_rows(db2, segment_id, todo \ {u}, waiting)

\* whether _apply_zero_scores_for_unanswered goes past its early returns
zero_fill_due(gs) ==
    /\ gs.current_question_id # NoQuestion
    /\ gs.current_segment_id # NoSeg
    /\ gs.current_question_id \notin gs.scored_question_ids

\* _apply_zero_scores_for_unanswered: game state and database afterwards
apply_zero_scores_for_unanswered(gs, db) ==
    IF ~ zero_fill_due(gs)
    THEN [gs |-> gs, db |-> db]
    ELSE LET targets == zero_fill_targets(gs)
         IN  [ gs |-> [gs EXCEPT
                         !.participants =
                            [u \in DOMAIN gs.participants |->
                               IF /\ u \in targets
                                  /\ gs.participants[u].join_status = "waiting_for_segment"
                               THEN [gs.participants[u] EXCEPT
                                        !.join_status = "active_in_quiz"]
                               ELSE gs.participants[u]],
                         !.scored_question_ids = @ \cup {gs.current_question_id}],
               db |-> zero_fill_rows(db, gs.current_segment_id, targets,
                                     waiting_for_segment(gs)) ]

\* count_event_questions
available_questions ==
    LET RECURSIVE total(_)
        total(i) == IF i = 0 THEN 0 ELSE Len(SegQuestions(SegOrder[i])) + total(i - 1)
    IN  total(Len(SegOrder))

\* _maybe_emit_completion_payload with should_emit_mega_quiz_ready: the
\* phase of the payload, "none" while a segment is not completed
maybe_emit_completion_payload(segs) ==
    IF \E s \in Segs : segs[s].status # "completed" THEN "none"
    ELSE IF available_questions > 0 THEN "mega_quiz_ready"
    ELSE "event_complete"

\* the phase the handlers leave after the end of a segment, from the type of
\* the completion payload
phase_after_completion(completion) ==
    IF completion = "none" THEN "segment_complete"
    ELSE IF completion = "mega_quiz_ready" THEN "mega_quiz_ready"
    ELSE "event_complete"

\* the end of a segment in next_question and end_game: phase, segment row,
\* completion payload and the frames broadcast
complete_segment(gs, segs) ==
    LET segs1 == [segs EXCEPT ![gs.current_segment_id].status = "completed"]
        completion == maybe_emit_completion_payload(segs1)
        idx == gs.current_question_index
    IN  [ gs |-> [gs EXCEPT !.quiz_phase = phase_after_completion(completion)],
          segs |-> segs1,
          frames |->
             << Bcast("game_ended", "", 0, 0),
                PhaseChanged("segment_complete", idx, gs.total_questions),
                Bcast("segment_complete", gs.current_segment_id, 0, 0) >>
             \o (IF completion = "none" THEN << >>
                 ELSE << Bcast(completion, "", 0, 0),
                         PhaseChanged(completion, idx, gs.total_questions) >>) ]

\* a variant of started_state that keeps the answers of the last question
started_state_keeps_answers(u) ==
    LET seg == active_segment_with_event
        questions == SegQuestions(seg)
        presenter == IF segments[seg].presenter_user_id # NoUser
                     THEN segments[seg].presenter_user_id ELSE u
        gs1 == [game_state EXCEPT
                  !.scored_question_ids = {},
                  !.current_segment_id = seg,
                  !.current_presenter_id = presenter,
                  !.questions = questions,
                  !.total_questions = Len(questions),
                  !.current_question_index = 0,
                  !.current_question_id = questions[1].id,
                  !.presenter_paused = FALSE,
                  !.presenter_pause_reason = "none",
                  !.quiz_phase = "showing_question",
                  !.time_limit_seconds =
                      IF time_per_question # 0 THEN time_per_question ELSE @]
        connected_non_presenters ==
            {x \in DOMAIN gs1.participants :
                x # presenter /\ gs1.participants[x].online}
    IN  IF connected_non_presenters = {}
        THEN pause(gs1, "no_participants")
        ELSE [gs1 EXCEPT !.question_started_at = now]

\* the game state start_game builds for the segment it starts
started_state(u) ==
    LET seg == active_segment_with_event
        questions == SegQuestions(seg)
        presenter == IF segments[seg].presenter_user_id # NoUser
                     THEN segments[seg].presenter_user_id ELSE u
        gs1 == [game_state EXCEPT
                  !.scored_question_ids = {},
                  !.current_segment_id = seg,
                  !.current_presenter_id = presenter,
                  !.questions = questions,
                  !.total_questions = Len(questions),
                  !.current_question_index = 0,
                  !.current_question_id = questions[1].id,
                  !.presenter_paused = FALSE,
                  !.presenter_pause_reason = "none",
                  !.quiz_phase = "showing_question",
                  !.time_limit_seconds =
                      IF time_per_question # 0 THEN time_per_question ELSE @,
                  !.answers_received = << >>]
        connected_non_presenters ==
            {x \in DOMAIN gs1.participants :
                x # presenter /\ gs1.participants[x].online}
    IN  IF connected_non_presenters = {}
        THEN pause(gs1, "no_participants")
        ELSE [gs1 EXCEPT !.question_started_at = now]

\* the frames of the start_game branch
StartGameFrames(c) ==
    IF user_id[c] = NoUser THEN << >>
    ELSE IF active_segment_with_event = NoSeg
    THEN << ErrorFrame(c, "not_found") >>
    ELSE IF ~ can_control_segment(segments[active_segment_with_event], user_id[c])
    THEN << ErrorFrame(c, "unauthorized") >>
    ELSE << Bcast("game_started", "", 0, 0) >>
         \o (IF started_state(user_id[c]).presenter_paused
             THEN PausedFrames(started_state(user_id[c]), "no_participants")
             ELSE << PhaseChanged("showing_question", 0,
                                  started_state(user_id[c]).total_questions),
                     Bcast("question", "", 0,
                           started_state(user_id[c]).total_questions) >>)

\* the start_game branch of websocket_event
StartGame(c) ==
    IF user_id[c] = NoUser THEN Ignored
    ELSE IF \/ active_segment_with_event = NoSeg
            \/ ~ can_control_segment(segments[active_segment_with_event], user_id[c])
    THEN UNCHANGED vars
    ELSE /\ used.games < MaxGames
         /\ used' = [used EXCEPT !.games = @ + 1]
         /\ game_state' = started_state(user_id[c])
         /\ segments' = [segments EXCEPT
                           ![active_segment_with_event].status = "quizzing"]
         /\ q_opened_at' = started_state(user_id[c]).question_started_at
         /\ UNCHANGED << now, user_id, connections, connection_states,
                         participant_rows, segment_scores, auxvars >>

\* a variant of advance_question that keeps the answers of the question it
\* leaves
advance_question_keeps_answers(gs, segs, t) ==
    LET next_index == gs.current_question_index + 1
        done == complete_segment(gs, segs)
    IN  IF next_index >= Len(gs.questions)
        THEN [ gs |-> done.gs, segs |-> done.segs, frames |-> done.frames ]
        ELSE [ gs |-> [gs EXCEPT
                         !.current_question_index = next_index,
                         !.current_question_id = gs.questions[next_index + 1].id,
                         !.presenter_paused = FALSE,
                         !.quiz_phase = "showing_question",
                         !.question_started_at = t],
               segs |-> segs,
               frames |-> << PhaseChanged("showing_question", next_index,
                                          Len(gs.questions)),
                             Bcast("question", "", next_index, Len(gs.questions)) >> ]

\* a variant of advance_question that advances the index and leaves the id
\* of the question behind
advance_question_keeps_id(gs, segs, t) ==
    LET next_index == gs.current_question_index + 1
        done == complete_segment(gs, segs)
    IN  IF next_index >= Len(gs.questions)
        THEN [ gs |-> done.gs, segs |-> done.segs, frames |-> done.frames ]
        ELSE [ gs |-> [gs EXCEPT
                         !.current_question_index = next_index,
                         !.presenter_paused = FALSE,
                         !.quiz_phase = "showing_question",
                         !.question_started_at = t,
                         !.answers_received = << >>],
               segs |-> segs,
               frames |-> << PhaseChanged("showing_question", next_index,
                                          Len(gs.questions)),
                             Bcast("question", "", next_index, Len(gs.questions)) >> ]

\* next_question after its zero-fill: the next question is shown, or the
\* segment ends
advance_question(gs, segs, t) ==
    LET next_index == gs.current_question_index + 1
        done == complete_segment(gs, segs)
    IN  IF next_index >= Len(gs.questions)
        THEN [ gs |-> done.gs, segs |-> done.segs, frames |-> done.frames ]
        ELSE [ gs |-> [gs EXCEPT
                         !.current_question_index = next_index,
                         !.current_question_id = gs.questions[next_index + 1].id,
                         !.presenter_paused = FALSE,
                         !.quiz_phase = "showing_question",
                         !.question_started_at = t,
                         !.answers_received = << >>],
               segs |-> segs,
               frames |-> << PhaseChanged("showing_question", next_index,
                                          Len(gs.questions)),
                             Bcast("question", "", next_index, Len(gs.questions)) >> ]

\* next_question after its authorization: zero-fill, then advance or end
\* the segment
next_question(gs, db, segs, t) ==
    LET z == apply_zero_scores_for_unanswered(gs, db)
        r == advance_question(z.gs, segs, t)
    IN  [ gs |-> r.gs, db |-> z.db, segs |-> r.segs, frames |-> r.frames ]

\* the frames of the next_question branch
NextQuestionFrames(c) ==
    IF user_id[c] = NoUser THEN << >>
    ELSE IF game_state.questions = << >>
    THEN << ErrorFrame(c, "no_quiz") >>
    ELSE IF ~ may_control_current(game_state, segments, user_id[c])
    THEN << ErrorFrame(c, "unauthorized") >>
    ELSE next_question(game_state, Db, segments, now).frames

\* the next_question branch of websocket_event
NextQuestion(c) ==
    IF user_id[c] = NoUser THEN Ignored
    ELSE IF \/ game_state.questions = << >>
            \/ ~ may_control_current(game_state, segments, user_id[c])
    THEN UNCHANGED vars
    ELSE LET r == next_question(game_state, Db, segments, now)
         IN  /\ game_state' = r.gs
             /\ segment_scores' = r.db.segment_scores
             /\ participant_rows' = r.db.participant_rows
             /\ segments' = r.segs
             /\ q_opened_at' =
                   IF r.gs.current_question_index # game_state.current_question_index
                   THEN now ELSE q_opened_at
             /\ UNCHANGED << now, user_id, connections, connection_states,
                             used, auxvars >>

\* the frames of the reveal_answer branch
RevealAnswerFrames(c) ==
    IF user_id[c] = NoUser THEN << >>
    ELSE IF game_state.questions = << >>
    THEN << ErrorFrame(c, "no_quiz") >>
    ELSE IF ~ may_control_current(game_state, segments, user_id[c])
    THEN << ErrorFrame(c, "unauthorized") >>
    ELSE << Bcast("reveal", "", game_state.current_question_index, 0),
            PhaseChanged("revealing_answer", game_state.current_question_index,
                         game_state.total_questions) >>

\* the reveal_answer branch of websocket_event
RevealAnswer(c) ==
    IF user_id[c] = NoUser THEN Ignored
    ELSE IF \/ game_state.questions = << >>
            \/ ~ may_control_current(game_state, segments, user_id[c])
    THEN UNCHANGED vars
    ELSE LET z == apply_zero_scores_for_unanswered(
                      [game_state EXCEPT !.quiz_phase = "revealing_answer"], Db)
         IN  /\ game_state' = z.gs
             /\ segment_scores' = z.db.segment_scores
             /\ participant_rows' = z.db.participant_rows
             /\ UNCHANGED << now, user_id, connections, connection_states,
                             segments, used, q_opened_at, auxvars >>

\* the frames of the show_leaderboard branch
ShowLeaderboardFrames(c) ==
    IF user_id[c] = NoUser THEN << >>
    ELSE IF may_control_current(game_state, segments, user_id[c])
    THEN << Bcast("leaderboard", "", 0, 0) >>
    ELSE << ErrorFrame(c, "unauthorized") >>

\* the show_leaderboard branch of websocket_event: it writes frames only
ShowLeaderboard(c) == UNCHANGED vars

\* the frames of the end_game branch
EndGameFrames(c) ==
    IF user_id[c] = NoUser THEN << >>
    ELSE IF ~ may_control_current(game_state, segments, user_id[c])
    THEN << ErrorFrame(c, "unauthorized") >>
    ELSE complete_segment(apply_zero_scores_for_unanswered(game_state, Db).gs,
                          segments).frames

\* the end_game branch of websocket_event
EndGame(c) ==
    IF user_id[c] = NoUser THEN Ignored
    ELSE IF ~ may_control_current(game_state, segments, user_id[c])
    THEN UNCHANGED vars
    ELSE LET z == apply_zero_scores_for_unanswered(game_state, Db)
             done == complete_segment(z.gs, segments)
         IN  /\ game_state' = done.gs
             /\ segment_scores' = z.db.segment_scores
             /\ participant_rows' = z.db.participant_rows
             /\ segments' = done.segs
             /\ UNCHANGED << now, user_id, connections, connection_states,
                             used, q_opened_at, auxvars >>

\* question_count or 10
DefaultMegaQuizCount == 10

\* aggregate_event_questions: how many questions it returns
aggregate_event_questions(max_questions) ==
    IF available_questions > max_questions THEN max_questions ELSE available_questions

\* the frames of the start_mega_quiz branch
StartMegaQuizFrames(c) ==
    IF aggregate_event_questions(DefaultMegaQuizCount) = 0
    THEN << ErrorFrame(c, "no_questions") >>
    ELSE << Bcast("mega_quiz_started", "",
                  aggregate_event_questions(DefaultMegaQuizCount), 0) >>

\* the game state the start_mega_quiz branch leaves: the branch assigns to no
\* field of it
mega_quiz_started_state(c) == game_state

\* the start_mega_quiz branch of websocket_event: it writes frames only
StartMegaQuiz(c) ==
    /\ game_state' = mega_quiz_started_state(c)
    /\ UNCHANGED << now, user_id, connections, connection_states, dbvars,
                    used, q_opened_at, auxvars >>

\* the frames of the skip_mega_quiz branch
SkipMegaQuizFrames(c) ==
    << Bcast("event_complete", "", 0, 0),
       PhaseChanged("event_complete", game_state.current_question_index,
                    game_state.total_questions) >>

\* the game state skip_mega_quiz leaves
skipped_state ==
    [game_state EXCEPT !.quiz_phase = "event_complete",
                       !.presenter_paused = FALSE,
                       !.presenter_pause_reason = "none"]

\* the skip_mega_quiz branch of websocket_event
SkipMegaQuiz(c) ==
    /\ game_state' = skipped_state
    /\ used.interventions < MaxInterventions
    /\ used' = [used EXCEPT !.interventions = @ + 1]
    /\ UNCHANGED << now, user_id, connections, connection_states, dbvars,
                    q_opened_at, auxvars >>

\* the frames of the admin_select_presenter branch
AdminSelectPresenterFrames(c, segment_id, presenter_user_id) ==
    IF user_id[c] = NoUser THEN << >>
    ELSE IF HostId # user_id[c]
    THEN << ErrorFrame(c, "only_host") >>
    ELSE << Bcast("presenter_changed", presenter_user_id, 0, 0) >>

\* the game state admin_select_presenter leaves
presenter_selected_state(c, segment_id, presenter_user_id) ==
    IF user_id[c] = NoUser \/ HostId # user_id[c]
    THEN game_state
    ELSE [game_state EXCEPT !.current_segment_id = segment_id,
                            !.current_presenter_id = presenter_user_id]

\* the admin_select_presenter branch of websocket_event, past its host check
PresenterSelected(c, segment_id, presenter_user_id) ==
    /\ segments' = [segments EXCEPT
                      ![segment_id].presenter_user_id = presenter_user_id]
    /\ game_state' = presenter_selected_state(c, segment_id, presenter_user_id)
    /\ UNCHANGED << now, user_id, connections, connection_states,
                    participant_rows, segment_scores, q_opened_at, auxvars >>

\* the admin_select_presenter branch of websocket_event
AdminSelectPresenter(c, segment_id, presenter_user_id) ==
    IF user_id[c] = NoUser THEN Ignored
    ELSE IF HostId # user_id[c]
    THEN UNCHANGED vars
    ELSE /\ PresenterSelected(c, segment_id, presenter_user_id)
         /\ used.interventions < MaxInterventions
         /\ used' = [used EXCEPT !.interventions = @ + 1]

\* the same branch, counted with the connection drops
AdminSelectPresenterAgain(c, segment_id, presenter_user_id) ==
    IF user_id[c] = NoUser THEN Ignored
    ELSE IF HostId # user_id[c]
    THEN UNCHANGED vars
    ELSE /\ PresenterSelected(c, segment_id, presenter_user_id)
         /\ used.drops < MaxDrops
         /\ used' = [used EXCEPT !.drops = @ + 1]

\* the error of the pass_presenter branch, "none" when the handoff goes
\* through
pass_presenter_error(c, next_presenter_id) ==
    IF game_state.current_segment_id = NoSeg THEN "no_segment"
    ELSE IF ~ can_control_segment(segments[game_state.current_segment_id], user_id[c])
    THEN "unauthorized"
    ELSE IF next_presenter_id \notin DOMAIN participant_rows THEN "not_found"
    ELSE IF next_presenter_id \notin connections THEN "not_connected"
    ELSE "none"

\* the frames of the pass_presenter branch
PassPresenterFrames(c, next_presenter_id) ==
    IF user_id[c] = NoUser THEN << >>
    ELSE IF pass_presenter_error(c, next_presenter_id) # "none"
    THEN << ErrorFrame(c, pass_presenter_error(c, next_presenter_id)) >>
    ELSE << Bcast("presenter_changed", next_presenter_id, 0, 0) >>

\* the game state and the segments the pass_presenter branch leaves
passed_state(c, next_presenter_id) ==
    IF user_id[c] = NoUser \/ pass_presenter_error(c, next_presenter_id) # "none"
    THEN [ gs |-> game_state, segs |-> segments ]
    ELSE [ gs |-> [game_state EXCEPT !.current_presenter_id = next_presenter_id],
           segs |-> [segments EXCEPT
                       ![game_state.current_segment_id].presenter_user_id =
                           next_presenter_id] ]

\* the pass_presenter branch of websocket_event
PassPresenter(c, next_presenter_id) ==
    IF user_id[c] = NoUser THEN Ignored
    ELSE IF pass_presenter_error(c, next_presenter_id) # "none"
    THEN UNCHANGED vars
    ELSE /\ game_state' = passed_state(c, next_presenter_id).gs
         /\ segments' = passed_state(c, next_presenter_id).segs
         /\ used.interventions < MaxInterventions
         /\ used' = [used EXCEPT !.interventions = @ + 1]
         /\ UNCHANGED << now, user_id, connections, connection_states,
                         participant_rows, segment_scores, q_opened_at, auxvars >>

\* ------------------------------------------------------------ specification
Next ==
    \/ Tick
    \/ \E u \in Users : HttpJoin(u)
    \/ \E c \in Users : Join(c)
    \/ \E c \in Users : Disconnect(c)
    \/ \E c \in Players, q \in 1..NumQuestions, a \in Answers : Answer(c, q, a)
    \/ \E c \in Users : StartGame(c)
    \/ \E c \in Users : NextQuestion(c)
    \/ \E c \in Users : RevealAnswer(c)
    \/ \E c \in Users : ShowLeaderboard(c)
    \/ \E c \in Users : EndGame(c)
    \/ \E c \in Users : StartMegaQuiz(c)
    \/ \E c \in Users : SkipMegaQuiz(c)
    \/ \E c \in Users, s \in Segs, p \in Players : AdminSelectPresenter(c, s, p)
    \/ \E c \in Users, p \in Users : PassPresenter(c, p)

Spec == Init /\ [][Next]_vars

\* ------------------------------------------------ handlers split at awaits
\* the handler loop of a connection reads its next message only when the
\* handler of the previous one has returned
Idle(c) == inflight[c].pc = "idle"

\* whether _score_answer_submission goes past its early return
can_score(gs) ==
    ~ \/ gs.questions = << >>
      \/ gs.current_question_index >= Len(gs.questions)
      \/ gs.question_started_at = NoTime
      \/ gs.current_segment_id = NoSeg

\* the answer branch up to the await of apply_score: the admission by
\* Hub.record_answer and the locals _score_answer_submission computes from
\* the game state, with no suspension in between
AnswerAdmit(c, question_id, selected_answer) ==
    /\ Idle(c)
    /\ IF ~ answer_admitted(c, question_id)
       THEN UNCHANGED vars
       ELSE LET gs == record_answer(game_state, user_id[c], selected_answer, now)
                question_data == gs.questions[gs.current_question_index + 1]
            IN  /\ game_state' = gs
                /\ inflight' =
                     IF can_score(gs)
                     THEN [inflight EXCEPT ![c] =
                             [IdleHandler EXCEPT
                                !.pc = "scoring",
                                !.segment_id = gs.current_segment_id,
                                !.question_id = gs.current_question_id,
                                !.delta_score =
                                    answer_delta_score(gs, selected_answer, now),
                                !.is_correct =
                                    (selected_answer = question_data.correct_answer),
                                !.response_time_ms =
                                    calculate_response_time_ms(
                                        gs.question_started_at, now)]]
                     ELSE inflight
                /\ UNCHANGED << now, user_id, connections, connection_states,
                                dbvars, used, q_opened_at, fn_args, fn_out, broadcasting, joinvars >>

\* the answer branch from the await of apply_score on
AnswerScore(c) ==
    /\ inflight[c].pc = "scoring"
    /\ LET db == apply_score(Db, inflight[c].segment_id, user_id[c],
                             inflight[c].delta_score, inflight[c].is_correct,
                             inflight[c].response_time_ms)
       IN  /\ segment_scores' = db.segment_scores
           /\ participant_rows' = db.participant_rows
    /\ inflight' = [inflight EXCEPT ![c] = IdleHandler]
    /\ UNCHANGED << now, hubvars, segments, used, q_opened_at, fn_args, fn_out, broadcasting, joinvars >>

\* the next_question branch up to the first await of apply_score in
\* _apply_zero_scores_for_unanswered: the question, the segment and the
\* participants without an answer are held in locals.  When there is
\* nothing to zero-fill the branch has no await on which another handler
\* could change what it has read
NextQuestionBegin(c) ==
    /\ Idle(c)
    /\ IF \/ user_id[c] = NoUser
          \/ game_state.questions = << >>
          \/ ~ may_control_current(game_state, segments, user_id[c])
          \/ ~ zero_fill_due(game_state)
          \/ zero_fill_targets(game_state) = {}
       THEN NextQuestion(c)
       ELSE /\ inflight' =
                 [inflight EXCEPT ![c] =
                    [IdleHandler EXCEPT
                       !.pc = "zero_fill",
                       !.segment_id = game_state.current_segment_id,
                       !.question_id = game_state.current_question_id,
                       !.todo = zero_fill_targets(game_state)]]
            /\ UNCHANGED << now, hubvars, dbvars, used, q_opened_at,
                            fn_args, fn_out, broadcasting, joinvars >>

\* the loop of _apply_zero_scores_for_unanswered over the participants held
\* in the locals, up to the await of its commit.  The rows are read and
\* written in the handler's own transaction, which other transactions see
\* as a whole
NextQuestionZeroFill(c) ==
    /\ inflight[c].pc = "zero_fill"
    /\ LET db == zero_fill_rows(Db, inflight[c].segment_id, inflight[c].todo,
                                waiting_for_segment(game_state))
       IN  /\ segment_scores' = db.segment_scores
           /\ participant_rows' = db.participant_rows
    /\ game_state' =
          [game_state EXCEPT !.participants =
             [u \in DOMAIN game_state.participants |->
                IF /\ u \in inflight[c].todo
                   /\ game_state.participants[u].join_status = "waiting_for_segment"
                THEN [game_state.participants[u] EXCEPT
                         !.join_status = "active_in_quiz"]
                ELSE game_state.participants[u]]]
    /\ inflight' = [inflight EXCEPT ![c].pc = "commit"]
    /\ UNCHANGED << now, user_id, connections, connection_states, segments,
                    used, q_opened_at, fn_args, fn_out, broadcasting, joinvars >>

\* the next_question branch after the commit: the question is marked as
\* scored, and the index read now is advanced
NextQuestionFinish(c) ==
    /\ inflight[c].pc = "commit"
    /\ LET gs == [game_state EXCEPT
                    !.scored_question_ids = @ \cup {inflight[c].question_id}]
           r == advance_question(gs, segments, now)
       IN  /\ game_state' = r.gs
           /\ segments' = r.segs
           /\ q_opened_at' =
                IF r.gs.current_question_index # game_state.current_question_index
                THEN now ELSE q_opened_at
    /\ inflight' = [inflight EXCEPT ![c] = IdleHandler]
    /\ UNCHANGED << now, user_id, connections, connection_states,
                    participant_rows, segment_scores, used, fn_args, fn_out, broadcasting, joinvars >>

JoinWhenIdle(c) == Idle(c) /\ Join(c)

StartGameWhenIdle(c) == Idle(c) /\ StartGame(c)

NextAsync ==
    \/ Tick
    \/ \E u \in Users : HttpJoin(u)
    \/ \E c \in Users : JoinWhenIdle(c)
    \/ \E c \in Users : StartGameWhenIdle(c)
    \/ \E c \in Players, q \in 1..NumQuestions, a \in Answers : AnswerAdmit(c, q, a)
    \/ \E c \in Players : AnswerScore(c)
    \/ \E c \in Users : NextQuestionBegin(c)
    \/ \E c \in Users : NextQuestionZeroFill(c)
    \/ \E c \in Users : NextQuestionFinish(c)

SpecAsync == Init /\ [][NextAsync]_vars

\* ------------------------------------------------ connection life cycle
\* joins and connection drops around the questions of one quiz
NextConn ==
    \/ Tick
    \/ \E u \in Users : HttpJoin(u)
    \/ \E c \in Users : Join(c)
    \/ \E c \in Users : DisconnectAgain(c)
    \/ \E c \in Players, q \in 1..NumQuestions, a \in Answers : Answer(c, q, a)
    \/ \E c \in Users : StartGame(c)
    \/ \E c \in Users : NextQuestion(c)
    \/ \E c \in Users, s \in Segs, p \in Players :
          AdminSelectPresenterAgain(c, s, p)

SpecConn == Init /\ [][NextConn]_vars

\* ------------------------------------------------- admission and scoring
\* elapsed times between the start of a question and a submission,
\* microseconds
ElapsedSamples ==
    { 0, 1, 999, 1000, 1001000, 1500000, 2000000, 2002000, 3000000, 10000000,
      29900000, 29970000, 29971000, 29999000, 29999999, 30000000, 30000001,
      30499000, 30499999, 30500000, 30500001, 30600000 }

FnInputs ==
    [ elapsed_us : ElapsedSamples, time_limit_seconds : {1, 30},
      started_at : {0, 7000000}, selected_answer : Answers ]

\* a session in which the first question is shown to a participant who was
\* there before it started and has not answered
FnGameState(args) ==
    [InitGameState EXCEPT
       !.current_segment_id = "s1",
       !.current_presenter_id = "p",
       !.questions = SegQuestions("s1"),
       !.total_questions = Len(SegQuestions("s1")),
       !.current_question_id = SegQuestions("s1")[1].id,
       !.question_started_at = args.started_at,
       !.time_limit_seconds = args.time_limit_seconds,
       !.quiz_phase = "showing_question",
       !.participants = [u \in Players |-> ParticipantInfo("joined", FALSE, 0)]]

InitFn ==
    /\ InitSession
    /\ fn_args \in FnInputs
    /\ fn_out = FnIdle
    /\ broadcasting = NoBroadcasting
    /\ events = [e \in JoinEvents |-> NewEvent]

\* Hub.record_answer applied to the inputs
FnRecordAnswer ==
    /\ fn_out.op = "none"
    /\ LET gs == FnGameState(fn_args)
           t == fn_args.started_at + fn_args.elapsed_us
       IN  fn_out' =
             [ op |-> "record_answer",
               reason |-> record_answer_reason(gs, "a", t),
               answers_received |->
                   record_answer(gs, "a", fn_args.selected_answer, t).answers_received,
               response_time_ms |-> 0,
               delta_score |-> 0 ]
    /\ UNCHANGED << now, hubvars, dbvars, used, q_opened_at, inflight, fn_args, broadcasting, joinvars >>

\* the delta_score _score_answer_submission computes for the inputs, when
\* Hub.record_answer has admitted the answer
FnScoreAnswer ==
    /\ fn_out.op = "none"
    /\ LET gs == FnGameState(fn_args)
           t == fn_args.started_at + fn_args.elapsed_us
       IN  /\ record_answer_reason(gs, "a", t) = "ok"
           /\ fn_out' =
                [ op |-> "score",
                  reason |-> "ok",
                  answers_received |->
                      record_answer(gs, "a", fn_args.selected_answer, t).answers_received,
                  response_time_ms |->
                      calculate_response_time_ms(gs.question_started_at, t),
                  delta_score |->
                      answer_delta_score(gs, fn_args.selected_answer, t) ]
    /\ UNCHANGED << now, hubvars, dbvars, used, q_opened_at, inflight, fn_args, broadcasting, joinvars >>

NextFn == FnRecordAnswer \/ FnScoreAnswer

SpecFn == InitFn /\ [][NextFn]_vars

\* ------------------------------------------------------------ Hub.broadcast
\* the event of the session, and an event no client has connected to
Events == {"event", "other"}
event_sessions == {"event"}

\* a variant of the fan-out that gives up at the first failed write
broadcast_stops_on_failure(pending, u, ok) ==
    IF ok THEN pending \ {u} ELSE {}

\* the recipients the loop of Hub.broadcast still has to write to after its
\* write to u: the failure is caught and the loop goes on
broadcast_pending_after(pending, u, ok) ==
    pending \ {u}

\* Hub._lock, as left by a broadcast that would hold it until it returns
lock_held_through_writes(lock) == "broadcast"

\* Hub._lock on leaving the `async with self._lock` block in which
\* Hub.broadcast copies the connections: released before the first write
lock_after_snapshot(lock) == "free"

\* `async with self._lock` can be entered
hub_lock_free == broadcasting.lock = "free"

\* Hub.broadcast up to its snapshot of the connections, taken under the
\* lock; without a session for the event it returns at once
BroadcastBegin(e) ==
    /\ broadcasting.pc \in {"idle", "done"}
    /\ IF e \notin event_sessions
       THEN UNCHANGED vars
       ELSE /\ hub_lock_free
            /\ broadcasting' =
                 [NoBroadcasting EXCEPT !.pc = "sending",
                                        !.lock = lock_after_snapshot("broadcast"),
                                        !.snapshot = connections,
                                        !.pending = connections]
            /\ UNCHANGED << now, hubvars, dbvars, used, q_opened_at,
                            inflight, fn_args, fn_out, joinvars >>

\* one turn of the loop: websocket.send_json to u, which succeeds or raises;
\* a socket whose handler has already seen the disconnect cannot be written to
BroadcastSend(u, ok) ==
    /\ broadcasting.pc = "sending"
    /\ u \in broadcasting.pending
    /\ ok => u \in connections
    /\ broadcasting' =
          [broadcasting EXCEPT
             !.pending = broadcast_pending_after(@, u, ok),
             !.sent[u] = @ + 1,
             !.delivered = IF ok THEN @ \cup {u} ELSE @,
             !.disconnected = IF ok THEN @ ELSE @ \cup {u},
             !.failed = IF ok THEN @ ELSE @ \cup {u}]
    /\ UNCHANGED << now, hubvars, dbvars, used, q_opened_at,
                    inflight, fn_args, fn_out, joinvars >>

\* the second loop: Hub.disconnect, which takes the lock, for a recipient
\* whose write failed
BroadcastDisconnect(u) ==
    /\ broadcasting.pc = "sending"
    /\ hub_lock_free
    /\ broadcasting.pending = {}
    /\ u \in broadcasting.disconnected
    /\ connections' = connections \ {u}
    /\ connection_states' =
          [connection_states EXCEPT ![u] = "temporarily_disconnected"]
    /\ game_state' = hub_disconnect(game_state, u)
    /\ broadcasting' = [broadcasting EXCEPT !.disconnected = @ \ {u}]
    /\ UNCHANGED << now, user_id, dbvars, used, q_opened_at,
                    inflight, fn_args, fn_out, joinvars >>

\* Hub.broadcast returns
BroadcastEnd ==
    /\ broadcasting.pc = "sending"
    /\ broadcasting.pending = {}
    /\ broadcasting.disconnected = {}
    /\ broadcasting' = [broadcasting EXCEPT !.pc = "done"]
    /\ UNCHANGED << now, hubvars, dbvars, used, q_opened_at,
                    inflight, fn_args, fn_out, joinvars >>

\* a broadcast, with the joins and the drops that other handlers run while
\* it waits on a socket; Hub.connect, Hub.reconnect and Hub.add_participant
\* of the join branch and Hub.disconnect of a drop take the lock
NextHub ==
    \/ \E u \in Users : HttpJoin(u)
    \/ \E c \in Users : hub_lock_free /\ Join(c)
    \/ \E c \in Users : hub_lock_free /\ DisconnectAgain(c)
    \/ \E e \in Events : BroadcastBegin(e)
    \/ \E u \in Users, ok \in BOOLEAN : BroadcastSend(u, ok)
    \/ \E u \in Users : BroadcastDisconnect(u)
    \/ BroadcastEnd

SpecHub == Init /\ [][NextHub]_vars


\* ----------------------------------------------------------- display names
\* a display name is a string, written as the sequence of its characters
NameChars == {"A", "a", " ", "2", "3"}
Digits == << "0", "1", "2", "3", "4", "5", "6", "7", "8", "9" >>

\* str(counter), for a counter below 100
str_of(counter) ==
    IF counter < 10
    THEN << Digits[counter + 1] >>
    ELSE << Digits[(counter \div 10) + 1], Digits[(counter % 10) + 1] >>

RECURSIVE lstrip(_)
lstrip(name) ==
    IF name # << >> /\ Head(name) = " " THEN lstrip(Tail(name)) ELSE name

RECURSIVE rstrip(_)
rstrip(name) ==
    IF name # << >> /\ name[Len(name)] = " "
    THEN rstrip(SubSeq(name, 1, Len(name) - 1)) ELSE name

\* str.strip()
strip(name) == rstrip(lstrip(name))

\* display_name LIKE 'base_name%'
like_prefix(name, base_name) ==
    /\ Len(name) >= Len(base_name)
    /\ SubSeq(name, 1, Len(base_name)) = base_name

\* f"{base_name} {counter}"
numbered(base_name, counter) == base_name \o << " " >> \o str_of(counter)

\* a variant of the counter loop that does not look further than its start
first_counter(existing_names, base_name, counter) == counter

\* the while loop of _get_unique_display_name
RECURSIVE next_free_counter(_, _, _)
next_free_counter(existing_names, base_name, counter) ==
    IF numbered(base_name, counter) \in existing_names
    THEN next_free_counter(existing_names, base_name, counter + 1)
    ELSE counter

\* _get_unique_display_name, over the display names of the event's rows
get_unique_display_name(names, base_name) ==
    LET existing_names == {n \in names : like_prefix(n, base_name)}
    IN  IF base_name \notin existing_names
        THEN base_name
        ELSE numbered(base_name, next_free_counter(existing_names, base_name, 2))

\* the names an event may hold, and the names a request may carry
NameSamples ==
    { << "A" >>, << "A", " ", "2" >>, << "A", " ", "3" >>, << "a" >>,
      << "A", "a" >>, << "A", " ", "2", " ", "2" >> }
RequestedNames ==
    { << "A" >>, << " ", "A", " " >>, << "a" >>, << "A", " ", "2" >> }

NameInputs == [ names : SUBSET NameSamples, display_name : RequestedNames ]

InitNames ==
    /\ InitSession
    /\ fn_args \in NameInputs
    /\ fn_out = FnIdle
    /\ broadcasting = NoBroadcasting
    /\ events = [e \in JoinEvents |-> NewEvent]

\* _get_unique_display_name applied to the stripped name of the request
FnUniqueName ==
    /\ fn_out.op = "none"
    /\ fn_out' = [ op |-> "unique_name",
                   name |-> get_unique_display_name(fn_args.names,
                                                    strip(fn_args.display_name)) ]
    /\ UNCHANGED << now, hubvars, dbvars, used, q_opened_at, inflight, fn_args,
                    broadcasting, joinvars >>

SpecNames == InitNames /\ [][FnUniqueName]_vars


\* --------------------------------------------------------------- HTTP joins
\* the instants of SpecLock, in microseconds
JoinInstants == {0, 3000000, 5000000, 5000001, 6000000}
grace_period_seconds == 5
\* the names the requests of SpecJoin carry
JoinNames == { << "A" >>, << "a" >> }
\* uuid4() of join_event_as_host: a device id no other row has
HostDevices == << "h1", "h2", "h3" >>

\* a variant of the check without the grace period
join_locked_out_no_grace(join_locked, join_locked_at, join_start_time) ==
    join_locked

\* the check of the join lock in _execute_join: the lock as the request read
\* it, with a grace period counted from the start of the request
join_locked_out(join_locked, join_locked_at, join_start_time) ==
    /\ join_locked
    /\ \/ join_locked_at = NoTime
       \/ join_start_time - join_locked_at > grace_period_seconds * 1000000

\* the rows of a device in another event that is waiting or active
rows_in_other_active_event(rows, evs, event_id, device_id) ==
    {i \in DOMAIN rows :
        /\ rows[i].device_id = device_id
        /\ rows[i].event_id # event_id
        /\ evs[rows[i].event_id].status \in {"waiting", "active"}}

\* the rows of a device in an event
rows_of_device(rows, event_id, device_id) ==
    {i \in DOMAIN rows :
        rows[i].event_id = event_id /\ rows[i].device_id = device_id}

\* the display names of the rows of an event
names_in_event(rows, event_id) ==
    {rows[i].display_name : i \in {j \in DOMAIN rows : rows[j].event_id = event_id}}

\* what _execute_join decides for a request, from the committed rows
join_decision(req) ==
    IF req.locked_out THEN "locked"
    ELSE IF rows_in_other_active_event(event_participants, events,
                                       req.event_id, req.device_id) # {}
    THEN "conflict"
    ELSE IF rows_of_device(event_participants, req.event_id, req.device_id) # {}
    THEN "rejoin"
    ELSE "new"

Response(status, display_name, is_rejoining) ==
    [ status |-> status, display_name |-> display_name,
      is_rejoining |-> is_rejoining ]

\* a variant of the lock test that lets every request in
lock_ignored(locks, event_id) == TRUE

\* whether the asyncio.Lock of the event can be acquired
lock_free(locks, event_id) == locks[event_id] = "none"

JoinTick ==
    /\ \E t \in JoinInstants : t > now /\ now' = t
    /\ UNCHANGED << hubvars, dbvars, used, q_opened_at, auxvars >>

\* join_event up to enqueue_join: the request reads the event and notes the
\* time it started; what _execute_join will make of the join lock is settled
\* by these two
JoinEvent(r, event_id, device_id, display_name) ==
    /\ join_requests[r].pc = "idle"
    /\ used.joins < MaxJoins
    /\ used' = [used EXCEPT !.joins = @ + 1]
    /\ join_requests' =
          [join_requests EXCEPT ![r] =
              [IdleRequest EXCEPT !.pc = "queued",
                                  !.event_id = event_id,
                                  !.device_id = device_id,
                                  !.display_name = display_name,
                                  !.locked_out =
                                      join_locked_out(events[event_id].join_locked,
                                                      events[event_id].join_locked_at,
                                                      now)]]
    /\ UNCHANGED << now, hubvars, dbvars, q_opened_at, inflight, fn_args,
                    fn_out, broadcasting, events, event_participants, event_locks >>

\* the response of a request that returns from _execute_join before the
\* insert: an HTTP error, or the row the device already has
ExecuteJoinResponse(r) ==
    LET req == join_requests[r]
        decision == join_decision(req)
        existing == CHOOSE i \in rows_of_device(event_participants,
                                                req.event_id, req.device_id) : TRUE
    IN  IF decision = "rejoin"
        THEN Response("ok", event_participants[existing].display_name, TRUE)
        ELSE Response(decision, << >>, FALSE)

\* _execute_join under the lock of the event, up to the insert of a new row:
\* a rejected request and a rejoin return here
ExecuteJoin(r) ==
    LET req == join_requests[r]
        decision == join_decision(req)
    IN  /\ req.pc = "queued"
        /\ lock_free(event_locks, req.event_id)
        /\ IF decision \in {"locked", "conflict", "rejoin"}
           THEN /\ join_requests' = [join_requests EXCEPT ![r] = IdleRequest]
                /\ UNCHANGED event_locks
           ELSE /\ join_requests' =
                     [join_requests EXCEPT
                        ![r].pc = "insert",
                        ![r].display_name =
                            get_unique_display_name(
                                names_in_event(event_participants, req.event_id),
                                strip(req.display_name))]
                /\ event_locks' = [event_locks EXCEPT ![req.event_id] = r]
        /\ UNCHANGED << now, hubvars, dbvars, used, q_opened_at, inflight,
                        fn_args, fn_out, broadcasting, events, event_participants >>

\* whether the unique constraint uq_event_device refuses the row of a request
refused(req) ==
    rows_of_device(event_participants, req.event_id, req.device_id) # {}

\* the response of a request that returns after its insert
CommitJoinResponse(r) ==
    IF refused(join_requests[r])
    THEN Response("error", << >>, FALSE)
    ELSE Response("ok", join_requests[r].display_name, FALSE)

\* the commit of the new row and the release of the lock; the unique
\* constraint uq_event_device refuses a second row of the device in the event
CommitJoin(r) ==
    LET req == join_requests[r]
    IN  /\ req.pc = "insert"
        /\ event_participants' =
              IF refused(req) THEN event_participants
              ELSE Append(event_participants,
                          [ event_id |-> req.event_id, device_id |-> req.device_id,
                            display_name |-> req.display_name ])
        /\ join_requests' = [join_requests EXCEPT ![r] = IdleRequest]
        /\ event_locks' =
              [event_locks EXCEPT ![req.event_id] =
                  IF @ = r THEN "none" ELSE @]
        /\ UNCHANGED << now, hubvars, dbvars, used, q_opened_at, inflight,
                        fn_args, fn_out, broadcasting, events >>

\* join_event_as_host up to its insert: no queue, no grace period
JoinAsHost(r, event_id, display_name) ==
    /\ join_requests[r].pc = "idle"
    /\ used.host_joins < MaxHostJoins
    /\ used' = [used EXCEPT !.host_joins = @ + 1]
    /\ join_requests' =
          [join_requests EXCEPT ![r] =
              IF events[event_id].join_locked
              THEN IdleRequest
              ELSE [IdleRequest EXCEPT
                      !.pc = "host_insert",
                      !.event_id = event_id,
                      !.device_id = HostDevices[used.host_joins + 1],
                      !.display_name =
                          get_unique_display_name(
                              names_in_event(event_participants, event_id),
                              strip(display_name))]]
    /\ UNCHANGED << now, hubvars, dbvars, q_opened_at, inflight, fn_args,
                    fn_out, broadcasting, events, event_participants, event_locks >>

\* the commit of the row of the host
CommitHostJoin(r) ==
    LET req == join_requests[r]
    IN  /\ req.pc = "host_insert"
        /\ event_participants' =
              Append(event_participants,
                     [ event_id |-> req.event_id, device_id |-> req.device_id,
                       display_name |-> req.display_name ])
        /\ join_requests' = [join_requests EXCEPT ![r] = IdleRequest]
        /\ UNCHANGED << now, hubvars, dbvars, used, q_opened_at, inflight,
                        fn_args, fn_out, broadcasting, events, event_locks >>

\* update_participant_name up to its commit
UpdateParticipantName(r, participant_id, display_name) ==
    /\ join_requests[r].pc = "idle"
    /\ participant_id \in DOMAIN event_participants
    /\ used.renames < MaxRenames
    /\ used' = [used EXCEPT !.renames = @ + 1]
    /\ join_requests' =
          [join_requests EXCEPT ![r] =
              [IdleRequest EXCEPT
                 !.pc = "rename",
                 !.event_id = event_participants[participant_id].event_id,
                 !.participant_id = participant_id,
                 !.display_name =
                     get_unique_display_name(
                         names_in_event(event_participants,
                                        event_participants[participant_id].event_id),
                         strip(display_name))]]
    /\ UNCHANGED << now, hubvars, dbvars, q_opened_at, inflight, fn_args,
                    fn_out, broadcasting, events, event_participants, event_locks >>

\* the commit of the new name
CommitName(r) ==
    LET req == join_requests[r]
    IN  /\ req.pc = "rename"
        /\ event_participants' =
              [event_participants EXCEPT
                 ![req.participant_id].display_name = req.display_name]
        /\ join_requests' = [join_requests EXCEPT ![r] = IdleRequest]
        /\ UNCHANGED << now, hubvars, dbvars, used, q_opened_at, inflight,
                        fn_args, fn_out, broadcasting, events, event_locks >>

\* a change of an event by its host, counted
EventChanged ==
    /\ used.event_changes < MaxEventChanges
    /\ used' = [used EXCEPT !.event_changes = @ + 1]

\* lock_event_join and unlock_event_join
LockJoin(event_id) ==
    /\ events' = [events EXCEPT ![event_id].join_locked = TRUE,
                                ![event_id].join_locked_at = now]
    /\ EventChanged
    /\ UNCHANGED << now, hubvars, dbvars, q_opened_at, inflight, fn_args,
                    fn_out, broadcasting, event_participants, join_requests,
                    event_locks >>

UnlockJoin(event_id) ==
    /\ events' = [events EXCEPT ![event_id].join_locked = FALSE,
                                ![event_id].join_locked_at = NoTime]
    /\ EventChanged
    /\ UNCHANGED << now, hubvars, dbvars, q_opened_at, inflight, fn_args,
                    fn_out, broadcasting, event_participants, join_requests,
                    event_locks >>

\* complete_event: the event is finished, its status kept for a resume
CompleteEvent(event_id) ==
    /\ events' = [events EXCEPT ![event_id].previous_status = events[event_id].status,
                                ![event_id].status = "finished"]
    /\ EventChanged
    /\ UNCHANGED << now, hubvars, dbvars, q_opened_at, inflight, fn_args,
                    fn_out, broadcasting, event_participants, join_requests,
                    event_locks >>

\* resume_event, outside its debounce window
ResumeEvent(event_id) ==
    /\ events[event_id].status = "finished"
    /\ events[event_id].previous_status # "none"
    /\ events' = [events EXCEPT ![event_id].status = events[event_id].previous_status,
                                ![event_id].previous_status = "none"]
    /\ EventChanged
    /\ UNCHANGED << now, hubvars, dbvars, q_opened_at, inflight, fn_args,
                    fn_out, broadcasting, event_participants, join_requests,
                    event_locks >>

\* the first event as created, the second inserted locked without a lock
\* timestamp
InitLock ==
    /\ InitSession
    /\ fn_args = NoArgs
    /\ fn_out = FnIdle
    /\ broadcasting = NoBroadcasting
    /\ events = [e \in JoinEvents |->
                   IF e = "e1" THEN NewEvent
                   ELSE [NewEvent EXCEPT !.join_locked = TRUE]]

\* joins of one device while the host locks and unlocks the first event
NextLock ==
    \/ JoinTick
    \/ LockJoin("e1")
    \/ UnlockJoin("e1")
    \/ \E e \in JoinEvents, n \in JoinNames : JoinEvent("r1", e, "d1", n)
    \/ ExecuteJoin("r1")
    \/ CommitJoin("r1")

SpecLock == InitLock /\ [][NextLock]_vars

NextJoin ==
    \/ \E r \in Requests, e \in JoinEvents, d \in Devices, n \in JoinNames :
          JoinEvent(r, e, d, n)
    \/ \E r \in Requests : ExecuteJoin(r)
    \/ \E r \in Requests : CommitJoin(r)
    \/ \E r \in Requests, e \in JoinEvents, n \in JoinNames : JoinAsHost(r, e, n)
    \/ \E r \in Requests : CommitHostJoin(r)
    \/ \E r \in Requests, i \in 1..4, n \in JoinNames :
          UpdateParticipantName(r, i, n)
    \/ \E r \in Requests : CommitName(r)
    \/ \E e \in JoinEvents : CompleteEvent(e)
    \/ \E e \in JoinEvents : ResumeEvent(e)

SpecJoin == Init /\ [][NextJoin]_vars


\* -------------------------------------------------------------- leaderboards
\* the entrants, scores and response times of the rows SpecBoard reads
Entrants == {"a", "p", "h"}
BoardScores == {0, 900}
BoardTimes == {2000, 4000}
Tables == {"event_participants", "segment_scores"}
MaxRows == 3

\* ORDER BY score only
order_key_score_only(r, s) == r.score > s.score

\* ORDER BY score DESC, total_response_time_ms ASC: row r sorts before row s
order_key(r, s) == r.score > s.score \/ (r.score = s.score /\ r.total_response_time_ms < s.total_response_time_ms)

RECURSIVE insert_row(_, _)
insert_row(sorted, r) ==
    IF sorted = << >> THEN << r >>
    ELSE IF order_key(r, Head(sorted)) THEN << r >> \o sorted
    ELSE << Head(sorted) >> \o insert_row(Tail(sorted), r)

\* the rows of a query in the order its ORDER BY gives; rows the keys do not
\* separate come in an order that depends on the order in which the table
\* holds them
RECURSIVE order_by(_)
order_by(rows) ==
    IF rows = << >> THEN << >>
    ELSE insert_row(order_by(Tail(rows)), Head(rows))

\* the entries built from the ordered rows, by _get_event_leaderboard and
\* _get_segment_leaderboard alike
leaderboard_entries(ordered) ==
    [ idx \in 1..Len(ordered) |->
        [ rank |-> idx,
          user_id |-> ordered[idx].user_id,
          score |-> ordered[idx].score,
          response_time_ms |-> ordered[idx].total_response_time_ms ] ]

\* _get_event_leaderboard over the participant rows of the event, the score
\* column being total_score
get_event_leaderboard(rows) == leaderboard_entries(order_by(rows))

\* _get_segment_leaderboard over the segment score rows of the segment
get_segment_leaderboard(rows) == leaderboard_entries(order_by(rows))

BoardRow == [ user_id : Entrants, score : BoardScores, total_response_time_ms : BoardTimes ]

\* the tables of at most MaxRows rows, one row per entrant, in every order
BoardRows ==
    { rows \in UNION { [1..n -> BoardRow] : n \in 0..MaxRows } :
        \A i, j \in 1..Len(rows) : i # j => rows[i].user_id # rows[j].user_id }

InitBoard ==
    /\ InitSession
    /\ fn_args \in [ table : Tables, rows : BoardRows ]
    /\ fn_out = FnIdle
    /\ broadcasting = NoBroadcasting
    /\ events = [e \in JoinEvents |-> NewEvent]

FnLeaderboard ==
    /\ fn_out.op = "none"
    /\ fn_out' = [ op |-> "leaderboard",
                   leaderboard |-> IF fn_args.table = "segment_scores"
                                   THEN get_segment_leaderboard(fn_args.rows)
                                   ELSE get_event_leaderboard(fn_args.rows) ]
    /\ UNCHANGED << now, hubvars, dbvars, used, q_opened_at, inflight, fn_args,
                    broadcasting, joinvars >>

SpecBoard == InitBoard /\ [][FnLeaderboard]_vars


\* --------------------------------------------------------- completion payload
MaxSegments == 2
SegmentStatuses == {"pending", "quizzing", "completed"}
QuestionCounts == {0, 2}
SingleSegmentModes == {"remix", "skip"}
NoWinner == [ rank |-> 0, user_id |-> NoUser, score |-> 0, response_time_ms |-> 0 ]

\* count_event_questions over the segment rows of an event
RECURSIVE count_event_questions(_)
count_event_questions(rows) ==
    IF rows = << >> THEN 0
    ELSE Head(rows).questions + count_event_questions(Tail(rows))

get_mega_quiz_metadata(rows) ==
    [ segment_count |-> Len(rows),
      available_questions |-> IF Len(rows) # 0 THEN count_event_questions(rows) ELSE 0 ]

\* should_emit_mega_quiz_ready, were it to skip the mega quiz of a
\* single-segment event in "skip" mode
should_emit_unless_skipped(metadata, single_segment_mode) ==
    /\ metadata.available_questions > 0
    /\ ~(metadata.segment_count = 1 /\ single_segment_mode = "skip")

should_emit_mega_quiz_ready(metadata, single_segment_mode) ==
    IF metadata.available_questions <= 0 THEN FALSE ELSE TRUE

\* _maybe_emit_completion_payload over the segment rows and the participant
\* rows of the event
completion_payload(segment_rows, participant_rows_, single_segment_mode) ==
    IF \E i \in 1..Len(segment_rows) : segment_rows[i].status # "completed"
    THEN [ type |-> "none" ]
    ELSE LET metadata == get_mega_quiz_metadata(segment_rows)
             leaderboard == get_event_leaderboard(participant_rows_)
         IN  IF should_emit_mega_quiz_ready(metadata, single_segment_mode)
             THEN [ type |-> "mega_quiz_ready",
                    available_questions |-> metadata.available_questions,
                    current_leaderboard |-> leaderboard,
                    is_single_segment |-> (metadata.segment_count = 1),
                    single_segment_mode |-> single_segment_mode ]
             ELSE [ type |-> "event_complete",
                    final_leaderboard |-> leaderboard,
                    winner |-> IF leaderboard # << >> THEN leaderboard[1]
                               ELSE NoWinner ]

SegmentRows ==
    UNION { [1..n -> [ status : SegmentStatuses, questions : QuestionCounts ]] : n \in 0..MaxSegments }

InitCompletion ==
    /\ InitSession
    /\ fn_args \in [ segments : SegmentRows, rows : BoardRows, single_segment_mode : SingleSegmentModes ]
    /\ fn_out = FnIdle
    /\ broadcasting = NoBroadcasting
    /\ events = [e \in JoinEvents |-> NewEvent]

\* the completion payload and the phase the handler sets from it
FnCompletion ==
    /\ fn_out.op = "none"
    /\ LET completion == completion_payload(fn_args.segments, fn_args.rows,
                                            fn_args.single_segment_mode)
       IN  fn_out' = [ op |-> "completion",
                       completion |-> completion,
                       quiz_phase |-> phase_after_completion(completion.type) ]
    /\ UNCHANGED << now, hubvars, dbvars, used, q_opened_at, inflight, fn_args,
                    broadcasting, joinvars >>

SpecCompletion == InitCompletion /\ [][FnCompletion]_vars


\* ------------------------------------------------- stale-connection cleanup
GRACE_PERIOD == 30
\* the instants of the last pong (or of the connection's start) that
\* SpecCleanup draws, the cleanup running at 40 s: 35 s old, 30 s old to the
\* microsecond, just over 30 s, 1 s old
HeartbeatInstants == {5000000, 10000000, 9999999, 39000000}

\* a heartbeat that is older than or as old as the grace period
is_stale_at_grace(t, last_heartbeat) ==
    t - last_heartbeat >= GRACE_PERIOD * 1000000

\* HeartbeatManager.cleanup_stale_connections: time_since_heartbeat >
\* GRACE_PERIOD
is_stale(t, last_heartbeat) ==
    t - last_heartbeat > GRACE_PERIOD * 1000000

\* the participants HeartbeatManager.cleanup_stale_connections returns
stale_participants(active_heartbeats, t) ==
    { u \in Users : /\ active_heartbeats[u] # NoTime
                    /\ is_stale(t, active_heartbeats[u]) }

RECURSIVE disconnect_each(_, _)
\* Hub.disconnect(permanent=False) for each of the participants in todo
disconnect_each(hub, todo) ==
    IF todo = {} THEN hub
    ELSE LET u == CHOOSE x \in todo : TRUE
         IN  disconnect_each(
                [ connections |-> hub.connections \ {u},
                  connection_states |->
                      [hub.connection_states EXCEPT ![u] = "temporarily_disconnected"],
                  game_state |-> hub_disconnect(hub.game_state, u),
                  active_heartbeats |-> [hub.active_heartbeats EXCEPT ![u] = NoTime] ],
                todo \ {u})

\* a session in the middle of a question: of the participants who have
\* joined some are connected and some have answered; every connection has a
\* heartbeat entry, and a participant without a connection may have one left
\* by a pong that came after the disconnect
InitCleanup ==
    /\ now = 40000000
    /\ \E joined \in SUBSET Users :
        \E connected \in SUBSET joined, answered \in SUBSET joined :
          /\ user_id = [c \in Users |-> IF c \in connected THEN c ELSE NoUser]
          /\ connections = connected
          /\ connection_states =
                [u \in Users |-> IF u \in connected THEN "connected"
                                 ELSE IF u \in joined THEN "temporarily_disconnected"
                                 ELSE "none"]
          /\ game_state =
                [InitGameState EXCEPT
                   !.current_segment_id = "s1",
                   !.current_presenter_id = "p",
                   !.current_question_id = SegQuestions("s1")[1].id,
                   !.question_started_at = 0,
                   !.quiz_phase = "showing_question",
                   !.questions = SegQuestions("s1"),
                   !.total_questions = Len(SegQuestions("s1")),
                   !.participants =
                       [u \in joined |->
                          [ParticipantInfo("joined", FALSE, 0) EXCEPT
                             !.online = (u \in connected)]],
                   !.answers_received = [u \in answered |-> "A"]]
          /\ participant_rows = [u \in joined |-> NewRow("joined", FALSE, 0)]
          /\ fn_args \in
                { a \in [ active_heartbeats : [Users -> HeartbeatInstants \cup {NoTime}] ] :
                    \A u \in Users :
                       /\ u \in connected => a.active_heartbeats[u] # NoTime
                       /\ u \notin joined => a.active_heartbeats[u] = NoTime }
    /\ segment_scores = << >>
    /\ segments = [s \in Segs |->
                     [ presenter_user_id |-> IF s = "s1" THEN "p" ELSE NoUser,
                       status |-> IF s = "s1" THEN "quizzing" ELSE "quiz_ready" ]]
    /\ used = [games |-> 0, interventions |-> 0, drops |-> 0,
               host_joins |-> 0, renames |-> 0, joins |-> 0,
               event_changes |-> 0]
    /\ event_participants = << >>
    /\ join_requests = [r \in Requests |-> IdleRequest]
    /\ event_locks = [e \in JoinEvents |-> "none"]
    /\ q_opened_at = 0
    /\ inflight = EmptyInflight
    /\ fn_out = FnIdle
    /\ broadcasting = NoBroadcasting
    /\ events = [e \in JoinEvents |-> NewEvent]

\* the pong branch of websocket_event: Hub.handle_pong records the time
Pong(c) ==
    /\ c \in connections
    /\ user_id[c] # NoUser
    /\ fn_out.op = "none"
    /\ fn_args' = [fn_args EXCEPT !.active_heartbeats[user_id[c]] = now]
    /\ UNCHANGED << now, hubvars, dbvars, used, q_opened_at, inflight, fn_out,
                    broadcasting, joinvars >>

\* Hub.cleanup_stale_connections
CleanupStaleConnections ==
    /\ fn_out.op = "none"
    /\ LET event_stale == stale_participants(fn_args.active_heartbeats, now)
                             \cap connections
           hub == disconnect_each(
                     [ connections |-> connections,
                       connection_states |-> connection_states,
                       game_state |-> game_state,
                       active_heartbeats |-> fn_args.active_heartbeats ],
                     event_stale)
       IN  /\ connections' = hub.connections
           /\ connection_states' = hub.connection_states
           /\ game_state' = hub.game_state
           /\ fn_args' = [fn_args EXCEPT !.active_heartbeats = hub.active_heartbeats]
           /\ fn_out' = [ op |-> "cleanup", stale |-> event_stale ]
    /\ UNCHANGED << now, user_id, dbvars, used, q_opened_at, inflight,
                    broadcasting, joinvars >>

NextCleanup ==
    \/ \E c \in Users : Pong(c)
    \/ CleanupStaleConnections

SpecCleanup == InitCleanup /\ [][NextCleanup]_vars


\* ------------------------------------------- a second socket of a participant
\* the join branch on socket c for a message whose user_id is u, while the
\* handler of u's first socket has not yet seen its close: the state of u
\* is not temporarily_disconnected, so Hub.connect registers the socket of c
\* under u in place of the first one
JoinAs(c, u) ==
    /\ c # u
    /\ user_id[c] = NoUser
    /\ c \notin DOMAIN participant_rows
    /\ user_id[u] = u
    /\ u \in DOMAIN participant_rows
    /\ user_id' = [user_id EXCEPT ![c] = u]
    /\ connections' = connections \cup {u}
    /\ connection_states' = [connection_states EXCEPT ![u] = "connected"]
    /\ game_state' = joined_state_2(u)
    /\ q_opened_at' =
          IF /\ q_opened_at = NoTime
             /\ joined_state_2(u).question_started_at # NoTime
          THEN now ELSE q_opened_at
    /\ UNCHANGED << now, dbvars, used, auxvars >>

\* the first socket of a participant joins, no other socket holding the
\* participant's id
JoinFirst(c) ==
    /\ \A c2 \in Users \ {c} : user_id[c2] # c
    /\ user_id[c] \in {NoUser, c}
    /\ Join(c)

\* the sockets of the clients: each participant's own, and a spare one that
\* a participant may open before the close of the own one is processed
NextSockets ==
    \/ Tick
    \/ \E u \in Users : HttpJoin(u)
    \/ \E c \in Users : JoinFirst(c)
    \/ \E c \in Users, u \in Users : JoinAs(c, u)
    \/ \E c \in Users : DisconnectAgain(c)
    \/ \E c \in Users : StartGame(c)
    \/ \E c \in Users : NextQuestion(c)

SpecSockets == Init /\ [][NextSockets]_vars

\* ------------------------------------------------------------- properties
Joined(c) == user_id[c] # NoUser

HasAnswered(c) == Joined(c) /\ user_id[c] \in DOMAIN game_state.answers_received

\* SegmentScore.questions_answered of a participant in a segment
QuestionsAnswered(s, u) ==
    IF << s, u >> \in DOMAIN segment_scores
    THEN segment_scores[<< s, u >>].questions_answered ELSE 0

\* SegmentScore.score of a participant in a segment
SegmentScoreOf(s, u) ==
    IF << s, u >> \in DOMAIN segment_scores
    THEN segment_scores[<< s, u >>].score ELSE 0

\* the sum of a participant's segment scores over the segments of the event
SumSegmentScores(u) ==
    LET RECURSIVE sum(_)
        sum(i) == IF i = 0 THEN 0 ELSE SegmentScoreOf(SegOrder[i], u) + sum(i - 1)
    IN  sum(Len(SegOrder))

\* one error frame, written to the caller's own socket
IsErrorTo(frames, c) ==
    /\ Len(frames) = 1
    /\ frames[1].to = c
    /\ frames[1].type = "error"

NoBroadcast(frames) == \A i \in DOMAIN frames : frames[i].to # "all"

C2_CommandsIsolated ==
    [][\A c \in Users :
          (inflight[c].pc \in {"zero_fill", "commit"} /\ inflight'[c] = inflight[c]) =>
              /\ game_state'.answers_received = game_state.answers_received
              /\ game_state'.current_question_index
                    = game_state.current_question_index
              /\ game_state'.current_question_id = game_state.current_question_id
              /\ game_state'.scored_question_ids = game_state.scored_question_ids]_vars

\* C3, as stated: an answer is held only for participants who had joined
\* when the current question was first shown.
C3_LateJoinerNeverAdmitted ==
    \A u \in DOMAIN game_state.answers_received :
        u \in DOMAIN game_state.participants =>
            game_state.participants[u].joined_at <= q_opened_at

\* C4: while the session is paused, every answer of a participant to the
\* current question is answered with the error paused and changes neither
\* the answers received nor any score; the loss of a connection, which
\* pauses the session, and a join, which resumes it, leave
\* current_question_index unchanged; the resume also keeps the question and
\* the answers received, and right after it a participant who was there,
\* and has not answered, is admitted.
C4_PausedRejects ==
    /\ [](game_state.presenter_paused =>
            \A c \in Players, a \in Answers :
                Joined(c) =>
                    LET q == game_state.current_question_id
                    IN  /\ AnswerFrames(c, q, a) = << ErrorFrame(c, "paused") >>
                        /\ answer_outcome(c, q, a).gs = game_state
                        /\ answer_outcome(c, q, a).db = Db)
    /\ [][game_state'.current_question_index # game_state.current_question_index
              => ~ \E c \in Users : Disconnect(c) \/ Join(c)]_vars
    /\ [][(/\ game_state.presenter_paused
           /\ ~ game_state'.presenter_paused
           /\ \E c \in Users : Join(c)) =>
             /\ game_state'.current_question_index
                   = game_state.current_question_index
             /\ game_state'.current_question_id = game_state.current_question_id
             /\ game_state'.answers_received = game_state.answers_received
             /\ \A u \in DOMAIN game_state'.participants :
                   (/\ game_state'.question_started_at # NoTime
                    /\ u \notin DOMAIN game_state'.answers_received
                    /\ game_state'.participants[u].joined_at <= now')
                      => record_answer_reason(game_state', u, now') = "ok"]_vars

\* the session is paused while a question is current and a participant who
\* could answer it is connected
C4_Witness ==
    /\ game_state.presenter_paused
    /\ game_state.current_question_id # NoQuestion
    /\ \E c \in Players : Joined(c)

\* C5, as stated: for a participant who never answers, questions_answered
\* in the segment never exceeds the number of questions shown so far: no
\* question is zero-filled twice for them.
C5_ZeroFilledOnce ==
    \A u \in Users \ Players :
        QuestionsAnswered("s1", u) <=
            (IF game_state.questions = << >>
             THEN 0 ELSE game_state.current_question_index + 1)

\* C6: for a participant who passes every other check, Hub.record_answer
\* admits the answer exactly when the whole number of milliseconds elapsed
\* since question_started_at is below the limit plus the grace, and
\* otherwise answers too_late and leaves answers_received as it was; with a
\* limit of 30 s, 29900 ms is admitted and 30500 ms and 30600 ms are not.
C6_Deadline ==
    fn_out.op = "record_answer" =>
        LET whole_ms == fn_args.elapsed_us \div 1000
            deadline_ms == fn_args.time_limit_seconds * 1000 + answer_timeout_grace_ms
        IN  /\ whole_ms < deadline_ms =>
                /\ fn_out.reason = "ok"
                /\ DOMAIN fn_out.answers_received = {"a"}
                /\ fn_out.answers_received["a"] = fn_args.selected_answer
            /\ whole_ms >= deadline_ms =>
                /\ fn_out.reason = "too_late"
                /\ fn_out.answers_received = << >>
            /\ fn_args.time_limit_seconds = 30 =>
                /\ fn_args.elapsed_us = 29900000 => fn_out.reason = "ok"
                /\ fn_args.elapsed_us = 30500000 => fn_out.reason = "too_late"
                /\ fn_args.elapsed_us = 30600000 => fn_out.reason = "too_late"

\* an answer arriving exactly at the deadline of a 30 s question is refused
C6_Witness ==
    /\ fn_out.op = "record_answer"
    /\ fn_args.time_limit_seconds = 30
    /\ fn_args.elapsed_us = 30500000
    /\ fn_out.reason = "too_late"

\* C7: the delta of an admitted answer is 0 when it is wrong; when it is
\* correct it is max(1, min(1000, floor(1000 * (limit - response) / limit)))
\* for a response time below the limit and 1 from the limit on; with a limit
\* of 30000 ms, 2000 ms gives 933, 3000 ms gives 900, 10000 ms gives 666.
C7_ScoreFormula ==
    fn_out.op = "score" =>
        LET limit == fn_args.time_limit_seconds * 1000
            rt == fn_out.response_time_ms
            correct == fn_args.selected_answer = SegQuestions("s1")[1].correct_answer
            floor == (1000 * (limit - rt)) \div limit
            capped == IF floor < 1000 THEN floor ELSE 1000
        IN  /\ ~ correct => fn_out.delta_score = 0
            /\ (correct /\ rt >= 0 /\ rt < limit) =>
                  fn_out.delta_score = (IF capped > 1 THEN capped ELSE 1)
            /\ (correct /\ rt >= limit) => fn_out.delta_score = 1
            /\ (correct /\ limit = 30000) =>
                  /\ rt = 2000 => fn_out.delta_score = 933
                  /\ rt = 3000 => fn_out.delta_score = 900
                  /\ rt = 10000 => fn_out.delta_score = 666

\* a correct answer after 10000 ms of a 30000 ms question has got 666
C7_Witness ==
    /\ fn_out.op = "score"
    /\ fn_args.time_limit_seconds = 30
    /\ fn_out.response_time_ms = 10000
    /\ fn_out.delta_score = 666

\* C8: the total_score of every participant row equals the sum of the
\* participant's segment scores over the segments of the event.
C8_TotalIsSumOfSegments ==
    \A u \in DOMAIN participant_rows :
        participant_rows[u].total_score = SumSegmentScores(u)

\* a participant has scored points in both segments, and another has been
\* zero-filled
C8_Witness ==
    /\ \E u \in DOMAIN participant_rows :
          SegmentScoreOf("s1", u) > 0 /\ SegmentScoreOf("s2", u) > 0
    /\ \E u \in DOMAIN participant_rows :
          QuestionsAnswered("s1", u) > 0 /\ SegmentScoreOf("s1", u) = 0

\* whether the caller is the presenter of the segment the command is about:
\* the one start_game would start, or the current one
IsPresenterCaller(c) ==
    /\ Joined(c)
    /\ \/ /\ active_segment_with_event # NoSeg
          /\ segments[active_segment_with_event].presenter_user_id = user_id[c]
       \/ /\ game_state.current_segment_id # NoSeg
          /\ segments[game_state.current_segment_id].presenter_user_id = user_id[c]

\* C9, as stated: a control command of a caller who is neither the host nor
\* the presenter is answered with one error frame, written to that caller.
C9_OthersGetErrorFrame ==
    \A c \in Users :
        ~ (user_id[c] = HostId \/ IsPresenterCaller(c)) =>
            /\ IsErrorTo(StartGameFrames(c), c)
            /\ IsErrorTo(NextQuestionFrames(c), c)
            /\ IsErrorTo(RevealAnswerFrames(c), c)
            /\ IsErrorTo(ShowLeaderboardFrames(c), c)
            /\ IsErrorTo(EndGameFrames(c), c)

\* C10, as stated: admin_select_presenter, start_mega_quiz and
\* skip_mega_quiz of a connection that is not the host's change neither the
\* quiz phase nor the presenter and broadcast nothing.
C10_HostOnly ==
    \A c \in Users :
        user_id[c] # HostId =>
            /\ NoBroadcast(StartMegaQuizFrames(c))
            /\ NoBroadcast(SkipMegaQuizFrames(c))
            /\ skipped_state.quiz_phase = game_state.quiz_phase
            /\ \A s \in Segs, p \in Users :
                  /\ NoBroadcast(AdminSelectPresenterFrames(c, s, p))
                  /\ presenter_selected_state(c, s, p) = game_state

\* whether a handoff of the presenter role by caller c to next is one that
\* may succeed
ValidHandoff(c, next) ==
    /\ game_state.current_segment_id # NoSeg
    /\ \/ user_id[c] = HostId
       \/ segments[game_state.current_segment_id].presenter_user_id = user_id[c]
    /\ next \in DOMAIN participant_rows
    /\ next \in connections
    /\ next # segments[game_state.current_segment_id].presenter_user_id

\* C11, as stated: a pass_presenter of a joined caller that is not a valid
\* handoff (caller host or presenter, target a connected participant other
\* than the current presenter) is answered with one error frame to the
\* caller and leaves the presenter of the segment and current_presenter_id
\* as they were.
C11_PassPresenterChecked ==
    \A c \in Users, next \in Users :
        (Joined(c) /\ ~ ValidHandoff(c, next)) =>
            /\ IsErrorTo(PassPresenterFrames(c, next), c)
            /\ passed_state(c, next).gs.current_presenter_id
                  = game_state.current_presenter_id
            /\ passed_state(c, next).segs = segments

\* the connection of the participant who holds the presenter role drops
\* while a question is shown
PresenterDrops(c) ==
    /\ DisconnectAgain(c)
    /\ game_state.current_presenter_id = user_id[c]
    /\ game_state.quiz_phase = "showing_question"

\* the presenter of a session that was paused during a question joins again
PresenterReturns(c) ==
    /\ Join(c)
    /\ game_state.presenter_paused
    /\ game_state.current_presenter_id = c
    /\ game_state.current_question_id # NoQuestion

HasQuestionFrame(frames, index) ==
    \E i \in DOMAIN frames :
        /\ frames[i].to = "all"
        /\ frames[i].type = "question"
        /\ frames[i].n = index

ParticipantArrives(c) ==
    /\ Join(c)
    /\ game_state.presenter_paused
    /\ game_state.presenter_pause_reason = "no_participants"
    /\ game_state.current_presenter_id # c

\* C13: when a session is paused with the reason no_participants and a
\* participant other than the presenter joins, the pause is lifted, the
\* reason is cleared, the phase is showing_question, question_started_at is
\* the time of the join and the question index is unchanged.
C13_ResumeOnParticipant ==
    [][\A c \in Users :
          ParticipantArrives(c) =>
              /\ ~ game_state'.presenter_paused
              /\ game_state'.presenter_pause_reason = "none"
              /\ game_state'.quiz_phase = "showing_question"
              /\ game_state'.question_started_at = now
              /\ game_state'.current_question_index
                    = game_state.current_question_index]_vars

\* a started quiz waits for participants some time after its start, and a
\* participant other than the presenter is about to join
C13_Witness ==
    /\ game_state.presenter_paused
    /\ game_state.presenter_pause_reason = "no_participants"
    /\ game_state.questions # << >>
    /\ now > 0
    /\ \E c \in DOMAIN participant_rows \ connections :
          c # game_state.current_presenter_id

\* C14, as stated: when the session is paused and the host sends
\* admin_select_presenter, the presenter named in the message is assigned and
\* the quiz resumes: presenter_paused is off and the phase is no longer
\* presenter_paused.
C14_HostOverrideResumes ==
    [][\A c \in Users, s \in Segs, p \in Players :
          ( /\ AdminSelectPresenterAgain(c, s, p)
            /\ user_id[c] = HostId
            /\ game_state.presenter_paused
            /\ game_state.quiz_phase = "presenter_paused" ) =>
              /\ game_state'.current_presenter_id = p
              /\ ~ game_state'.presenter_paused
              /\ game_state'.quiz_phase # "presenter_paused"]_vars

\* whether the frames hold a state_restored frame to c with this answer and
\* this score
HasStateRestored(frames, c, your_answer, your_score) ==
    \E i \in DOMAIN frames :
        /\ frames[i].to = c
        /\ frames[i].type = "state_restored"
        /\ frames[i].a = your_answer
        /\ frames[i].n = your_score

\* C15: when the connection of a participant who has answered drops, their
\* entry in answers_received and their persisted score stay as they are; when
\* they join again, the state_restored frame carries the recorded answer as
\* your_answer and the persisted total as your_score.
C15_AnswerSurvivesDrop ==
    /\ [][\A c \in Players :
            (DisconnectAgain(c) /\ HasAnswered(c)) =>
                /\ c \in DOMAIN game_state'.answers_received
                /\ game_state'.answers_received[c] = game_state.answers_received[c]
                /\ participant_rows'[c] = participant_rows[c]
                /\ segment_scores' = segment_scores]_vars
    /\ [][\A c \in Players :
            ( /\ Join(c)
              /\ connection_states[c] = "temporarily_disconnected"
              /\ c \in DOMAIN game_state.answers_received ) =>
                HasStateRestored(JoinFrames(c), c,
                                 game_state.answers_received[c],
                                 participant_rows[c].total_score)]_vars

\* a participant who has scored on their answer is away after a drop of
\* their connection
C15_Witness ==
    \E c \in Players :
        /\ connection_states[c] = "temporarily_disconnected"
        /\ c \in DOMAIN game_state.answers_received
        /\ participant_rows[c].total_score > 0

\* a participant whose connection had dropped joins again while a question
\* is running
ReconnectsDuringQuestion(c) ==
    /\ Join(c)
    /\ connection_states[c] = "temporarily_disconnected"
    /\ c \in DOMAIN game_state.participants
    /\ game_state.quiz_phase = "showing_question"
    /\ game_state.question_started_at # NoTime

\* C16, as stated: a participant who reconnects during an active question
\* does not become a late joiner: their joined_at in the session is the one
\* they had before the drop, their is_late_joiner flag is not turned on by
\* the reconnect, and their answer to that question is not rejected with
\* late_join unless it was before the drop.
C16_ReconnectNotLate ==
    [][\A c \in Players :
          ReconnectsDuringQuestion(c) =>
              /\ game_state'.participants[c].joined_at
                    = game_state.participants[c].joined_at
              /\ game_state'.participants[c].is_late_joiner
                    = game_state.participants[c].is_late_joiner
              /\ record_answer_reason(game_state, c, now) # "late_join"
                    => record_answer_reason(game_state', c, now') # "late_join"]_vars

\* whether the frames hold a frame of this type to c's own socket
HasFrameTo(frames, c, type) ==
    \E i \in DOMAIN frames : frames[i].to = c /\ frames[i].type = type

\* C17, as stated: a join by a participant whose connection state is
\* temporarily_disconnected is answered with state_restored and not with a
\* connected frame; a join by a participant with no prior connection state
\* is answered with connected and no state_restored.
C17_RestoredInsteadOfConnected ==
    [][\A c \in Users :
          Join(c) =>
              /\ connection_states[c] = "temporarily_disconnected" =>
                    /\ HasFrameTo(JoinFrames(c), c, "state_restored")
                    /\ ~ HasFrameTo(JoinFrames(c), c, "connected")
              /\ connection_states[c] = "none" =>
                    /\ HasFrameTo(JoinFrames(c), c, "connected")
                    /\ ~ HasFrameTo(JoinFrames(c), c, "state_restored")]_vars

\* C18: a broadcast writes exactly once to every participant in its snapshot
\* of the connections and to nobody else, and every one of them whose write
\* did not fail has got the message; the broadcast moves a recipient to
\* temporarily_disconnected (out of connections, offline) only after their
\* write failed, and touches no other participant; a broadcast to an event
\* without a session changes nothing.
C18_BroadcastFanOut ==
    /\ [](broadcasting.pc = "done" =>
            /\ \A u \in Users :
                  broadcasting.sent[u] =
                      (IF u \in broadcasting.snapshot THEN 1 ELSE 0)
            /\ broadcasting.delivered
                  = broadcasting.snapshot \ broadcasting.failed)
    /\ [][\A u \in Users :
            BroadcastDisconnect(u) =>
                /\ u \in broadcasting.failed
                /\ connections' = connections \ {u}
                /\ connection_states'[u] = "temporarily_disconnected"
                /\ \A x \in Users \ {u} :
                      connection_states'[x] = connection_states[x]
                /\ \A x \in DOMAIN game_state.participants :
                      game_state'.participants[x] =
                          (IF x = u
                           THEN [game_state.participants[x] EXCEPT !.online = FALSE]
                           ELSE game_state.participants[x])]_vars
    /\ [][(broadcasting' # broadcasting /\ hubvars' # hubvars) =>
            \E u \in broadcasting.failed : BroadcastDisconnect(u)]_vars
    /\ [][BroadcastBegin("other") => UNCHANGED vars]_vars

\* a broadcast to several recipients has returned after one write failed:
\* the others have the message and are still connected
C18_Witness ==
    /\ broadcasting.pc = "done"
    /\ broadcasting.failed # {}
    /\ broadcasting.delivered # {}
    /\ \A u \in broadcasting.failed :
          connection_states[u] = "temporarily_disconnected"
    /\ broadcasting.delivered \subseteq connections

\* the phases of a quiz in progress
ActivePhases ==
    {"showing_question", "revealing_answer", "showing_leaderboard",
     "between_questions", "presenter_paused"}

\* the transitions of the quiz phase listed for the game state machine
ListedTransition(from, to) ==
    \/ from = "not_started" /\ to \in {"showing_question", "presenter_paused"}
    \/ from = "showing_question" /\ to = "revealing_answer"
    \/ from = "revealing_answer" /\ to \in {"showing_question", "segment_complete"}
    \/ from \in ActivePhases /\ to = "segment_complete"
    \/ from = "segment_complete" /\ to \in {"mega_quiz_ready", "event_complete"}
    \/ from = "mega_quiz_ready" /\ to \in {"mega_quiz", "event_complete"}
    \/ from \in ActivePhases /\ to = "presenter_paused"
    \/ from = "presenter_paused" /\ to = "showing_question"

\* C19, as stated: the quiz phase changes only along the listed transitions.
C19_ListedTransitionsOnly ==
    [][game_state'.quiz_phase # game_state.quiz_phase =>
          ListedTransition(game_state.quiz_phase, game_state'.quiz_phase)]_vars

\* C20, as stated: when the session is in mega_quiz_ready and the host sends
\* start_mega_quiz with at least one question available, the quiz phase
\* becomes mega_quiz and mega_quiz_started is broadcast.
C20_MegaQuizStarts ==
    \A c \in Users :
        ( /\ user_id[c] = HostId
          /\ game_state.quiz_phase = "mega_quiz_ready"
          /\ aggregate_event_questions(DefaultMegaQuizCount) > 0 ) =>
            /\ mega_quiz_started_state(c).quiz_phase = "mega_quiz"
            /\ \E i \in DOMAIN StartMegaQuizFrames(c) :
                  /\ StartMegaQuizFrames(c)[i].to = "all"
                  /\ StartMegaQuizFrames(c)[i].type = "mega_quiz_started"

\* C23: a new participant whose trimmed name is not used in the event gets
\* exactly that name; otherwise they get the trimmed name, a space and the
\* smallest k >= 2 for which the result is not used in the event; names that
\* differ in case are different names.
C23_UniqueName ==
    fn_out.op = "unique_name" =>
        LET base == strip(fn_args.display_name)
            used_names == fn_args.names
        IN  /\ base # << >> /\ Head(base) # " " /\ base[Len(base)] # " "
            /\ fn_out.name \notin used_names
            /\ base \notin used_names => fn_out.name = base
            /\ base \in used_names =>
                  \E k \in 2..9 :
                      /\ fn_out.name = base \o << " ", Digits[k + 1] >>
                      /\ \A j \in 2..(k - 1) :
                            (base \o << " ", Digits[j + 1] >>) \in used_names
            /\ (fn_args.display_name = << "a" >> /\ << "a" >> \notin used_names)
                  => fn_out.name = << "a" >>

\* the third device that asks for the name gets the name with a 3, and a
\* padded request is trimmed first
C23_Witness ==
    /\ fn_out.op = "unique_name"
    /\ fn_args.display_name = << " ", "A", " " >>
    /\ fn_args.names = { << "A" >>, << "A", " ", "2" >>, << "a" >> }
    /\ fn_out.name = << "A", " ", "3" >>

\* C25: the request is locked out exactly when the event it read is locked
\* and either has no lock timestamp or was locked more than 5 seconds before
\* the request started; a request that is locked out is answered with
\* `locked` and adds no row, and a request that is not is never answered with
\* `locked`.
C25_LockGrace ==
    /\ [][\A e \in JoinEvents, n \in JoinNames :
            JoinEvent("r1", e, "d1", n) =>
                (join_requests'["r1"].locked_out <=>
                    /\ events[e].join_locked
                    /\ \/ events[e].join_locked_at = NoTime
                       \/ now - events[e].join_locked_at > 5000000)]_vars
    /\ [][(ExecuteJoin("r1") /\ join_requests["r1"].locked_out) =>
            /\ ExecuteJoinResponse("r1").status = "locked"
            /\ join_requests'["r1"].pc = "idle"
            /\ event_participants' = event_participants]_vars
    /\ [][(ExecuteJoin("r1") /\ ~ join_requests["r1"].locked_out) =>
            ExecuteJoinResponse("r1").status # "locked"]_vars
    /\ [](join_requests["r1"].pc = "insert" => ~ join_requests["r1"].locked_out)

\* the first event was locked at 0; a request that started one microsecond
\* after the end of the grace period waits in the queue, locked out
C25_Witness ==
    /\ events["e1"].join_locked
    /\ events["e1"].join_locked_at = 0
    /\ now = 5000001
    /\ join_requests["r1"].pc = "queued"
    /\ join_requests["r1"].event_id = "e1"
    /\ join_requests["r1"].locked_out

\* whether the device of a queued request already has a row in the event
\* and the request is not turned away by the lock or by another event
Rejoins(r) ==
    /\ ExecuteJoin(r)
    /\ join_decision(join_requests[r]) = "rejoin"

C22_OneActiveEventPerDevice ==
    \A i, j \in DOMAIN event_participants :
        ( /\ event_participants[i].device_id = event_participants[j].device_id
          /\ events[event_participants[i].event_id].status \in {"waiting", "active"}
          /\ events[event_participants[j].event_id].status \in {"waiting", "active"} )
            => event_participants[i].event_id = event_participants[j].event_id

\* C24, as stated: the display names of the rows of one event are pairwise
\* distinct.
C24_NamesDistinct ==
    \A i, j \in DOMAIN event_participants :
        ( /\ event_participants[i].event_id = event_participants[j].event_id
          /\ event_participants[i].display_name = event_participants[j].display_name )
            => i = j

\* C27: segment and event leaderboards list their entries in non-increasing
\* score order, entries of equal score in non-decreasing response time
\* order, each entry ranked by its 1-based position; the entries are those of
\* the rows read
C27_LeaderboardOrder ==
    fn_out.op = "leaderboard" =>
        LET lb == fn_out.leaderboard IN
        /\ Len(lb) = Len(fn_args.rows)
        /\ \A i \in 1..Len(lb) :
              /\ lb[i].rank = i
              /\ \E k \in 1..Len(fn_args.rows) :
                    /\ fn_args.rows[k].user_id = lb[i].user_id
                    /\ fn_args.rows[k].score = lb[i].score
                    /\ fn_args.rows[k].total_response_time_ms = lb[i].response_time_ms
        /\ \A i, j \in 1..Len(lb) :
              i < j => /\ lb[i].score >= lb[j].score
                       /\ lb[i].score = lb[j].score
                             => lb[i].response_time_ms <= lb[j].response_time_ms

\* a leaderboard of three entries, two of them tied on score and told apart
\* by response time, read from a table that held them in another order
C27_Witness ==
    /\ fn_out.op = "leaderboard"
    /\ Len(fn_out.leaderboard) = 3
    /\ fn_out.leaderboard[1].score = fn_out.leaderboard[2].score
    /\ fn_out.leaderboard[1].response_time_ms < fn_out.leaderboard[2].response_time_ms
    /\ fn_out.leaderboard[2].score > fn_out.leaderboard[3].score
    /\ fn_args.rows[1].user_id = fn_out.leaderboard[3].user_id
    /\ fn_args.rows[2].user_id = fn_out.leaderboard[2].user_id

AllSegmentsCompleted ==
    \A i \in 1..Len(fn_args.segments) : fn_args.segments[i].status = "completed"

HasAQuestion ==
    \E i \in 1..Len(fn_args.segments) : fn_args.segments[i].questions > 0

\* C26: the completion projection returns nothing while a segment of the
\* event is not completed; once all are completed it yields mega_quiz_ready
\* exactly when the event has a question across its segments, whatever the
\* segment count and the single_segment_mode, and otherwise event_complete
\* whose winner is the first entry of the event leaderboard; the handler sets
\* quiz_phase to the type of the payload
C26_CompletionPayload ==
    fn_out.op = "completion" =>
        LET completion == fn_out.completion
            leaderboard == get_event_leaderboard(fn_args.rows)
        IN  /\ ~AllSegmentsCompleted => /\ completion.type = "none"
                                        /\ fn_out.quiz_phase = "segment_complete"
            /\ AllSegmentsCompleted =>
                  /\ completion.type = (IF HasAQuestion THEN "mega_quiz_ready"
                                        ELSE "event_complete")
                  /\ fn_out.quiz_phase = completion.type
                  /\ completion.type = "event_complete" =>
                        /\ completion.final_leaderboard = leaderboard
                        /\ leaderboard # << >> => completion.winner = leaderboard[1]
                        /\ leaderboard = << >> => completion.winner = NoWinner

\* a single-segment event in "skip" mode whose completed segment has
\* questions, announced as mega_quiz_ready
C26_Witness ==
    /\ fn_out.op = "completion"
    /\ Len(fn_args.segments) = 1
    /\ fn_args.single_segment_mode = "skip"
    /\ AllSegmentsCompleted /\ HasAQuestion
    /\ fn_out.completion.type = "mega_quiz_ready"
    /\ fn_out.quiz_phase = "mega_quiz_ready"

\* the rejection conditions of an answer from client c for question q, in
\* the order in which the reason is said to be reported
RejectionReasons(c, q) ==
    LET gs == game_state
        u == user_id[c]
    IN  << IF q # gs.current_question_id THEN "stale" ELSE "",
           IF gs.presenter_paused THEN "paused" ELSE "",
           IF /\ u \in DOMAIN gs.participants
              /\ gs.participants[u].joined_at # NoTime
              /\ gs.question_started_at # NoTime
              /\ gs.participants[u].joined_at > gs.question_started_at
           THEN "late_join" ELSE "",
           IF u \in DOMAIN gs.answers_received THEN "duplicate" ELSE "",
           IF gs.question_started_at # NoTime /\ too_late(gs, now)
           THEN "too_late" ELSE "" >>

FirstReason(c, q) ==
    LET reasons == RejectionReasons(c, q)
        held == { i \in 1..Len(reasons) : reasons[i] # "" }
    IN  IF held = {} THEN ""
        ELSE reasons[CHOOSE i \in held : \A j \in held : i <= j]

SeveralReasons(c, q) ==
    Cardinality({ i \in 1..5 : RejectionReasons(c, q)[i] # "" }) >= 2

\* a rejected answer changes neither answers_received nor a score and
\* produces one error frame, to the submitter only
RejectedQuietly(c, q, a) ==
    ~answer_admitted(c, q) =>
        /\ answer_outcome(c, q, a).gs = game_state
        /\ answer_outcome(c, q, a).db = Db
        /\ IsErrorTo(AnswerFrames(c, q, a), c)
        /\ NoBroadcast(AnswerFrames(c, q, a))

C28_RejectedQuietly ==
    \A c \in Players, q \in 0..NumQuestions, a \in Answers :
        user_id[c] # NoUser => RejectedQuietly(c, q, a)

C29_PausedFlagMatchesPhase ==
    /\ game_state.presenter_paused <=> game_state.quiz_phase = "presenter_paused"
    /\ game_state.presenter_pause_reason # "none" <=> game_state.presenter_paused

\* C29, the reason alone: it is set exactly when the flag is true
C29_ReasonMatchesFlag ==
    game_state.presenter_pause_reason # "none" <=> game_state.presenter_paused

\* C29, one direction: in the phase presenter_paused the flag is true
C29_PhaseImpliesFlag ==
    game_state.quiz_phase = "presenter_paused" => game_state.presenter_paused

\* SegmentScore row of a participant in a segment, a fresh one if none
SegmentScoreRow(db, s, u) ==
    IF << s, u >> \in DOMAIN db.segment_scores
    THEN db.segment_scores[<< s, u >>] ELSE NewSegmentScore

\* a handler has zero-filled the current question in this step
ZeroFills ==
    /\ zero_fill_due(game_state)
    /\ game_state.current_question_id \in game_state'.scored_question_ids

DbNext == [segment_scores |-> segment_scores', participant_rows |-> participant_rows']

\* C30: zero-fill for the current question touches exactly the participants
\* of the session whose join_status is not segment_complete and who have no
\* entry in answers_received: questions_answered grows by 1 while score,
\* questions_correct, total_response_time_ms and total_score stay, and a
\* participant in waiting_for_segment becomes active_in_quiz; the
\* participants who answered are not touched
C30_ZeroFillTouchesUnanswered ==
    [][ZeroFills =>
          \A u \in Users :
            LET s == game_state.current_segment_id
                old == SegmentScoreRow(Db, s, u)
                new == SegmentScoreRow(DbNext, s, u)
                target == /\ u \in DOMAIN game_state.participants
                          /\ game_state.participants[u].join_status # "segment_complete"
                          /\ u \notin DOMAIN game_state.answers_received
            IN  /\ target =>
                      /\ new = [old EXCEPT !.questions_answered = @ + 1]
                      /\ u \in DOMAIN participant_rows =>
                            /\ participant_rows'[u].total_score = participant_rows[u].total_score
                            /\ participant_rows'[u].total_response_time_ms
                                  = participant_rows[u].total_response_time_ms
                      /\ game_state.participants[u].join_status = "waiting_for_segment"
                            => /\ game_state'.participants[u].join_status = "active_in_quiz"
                               /\ u \in DOMAIN participant_rows
                                     => participant_rows'[u].join_status = "active_in_quiz"
                /\ ~target =>
                      /\ new = old
                      /\ u \in DOMAIN participant_rows => participant_rows'[u] = participant_rows[u]
                      /\ u \in DOMAIN game_state.participants =>
                            game_state'.participants[u].join_status
                               = game_state.participants[u].join_status
    ]_vars

\* the player joined during the first question, waited for the segment and
\* was given a zero for it, then answered the second question, which
\* another participant of the session did not: at the reveal the player is
\* active in the quiz with two questions counted, one of them the answer,
\* and the other participant has a zero for the second question
C30_Witness ==
    \E u \in Users \ Players, c \in Players :
        LET s == game_state.current_segment_id IN
        /\ game_state.quiz_phase = "revealing_answer"
        /\ game_state.current_question_index = 1
        /\ game_state.current_question_id \in game_state.scored_question_ids
        /\ c \in DOMAIN game_state.answers_received
        /\ c \in DOMAIN game_state.participants
        /\ game_state.participants[c].join_status = "active_in_quiz"
        /\ QuestionsAnswered(s, c) = 2
        /\ u \in DOMAIN game_state.participants
        /\ u \notin DOMAIN game_state.answers_received
        /\ QuestionsAnswered(s, u) >= 1
        /\ SegmentScoreOf(s, u) = 0

\* the client may start the quiz: it has joined, a segment with questions
\* is there to start and the client is the host or the segment's presenter
MayStartGame(c) ==
    /\ user_id[c] # NoUser
    /\ active_segment_with_event # NoSeg
    /\ can_control_segment(segments[active_segment_with_event], user_id[c])

\* what start_game is to leave, of the game state gs it built from the
\* state before
StartedAsClaimed(gs) ==
    LET questions == SegQuestions(active_segment_with_event)
        others_online ==
            \E x \in DOMAIN game_state.participants :
                x # gs.current_presenter_id /\ game_state.participants[x].online
    IN  /\ gs.current_question_index = 0
        /\ gs.current_question_id = questions[1].id
        /\ gs.answers_received = << >>
        /\ gs.scored_question_ids = {}
        /\ others_online =>
              /\ gs.quiz_phase = "showing_question"
              /\ gs.question_started_at = now
              /\ ~ gs.presenter_paused
        /\ ~ others_online =>
              /\ gs.quiz_phase = "presenter_paused"
              /\ gs.presenter_paused
              /\ gs.presenter_pause_reason = "no_participants"
              /\ gs.question_started_at = NoTime

\* C31: an authorized start_game on a segment with questions sets
\* current_question_index to 0 and current_question_id to the first
\* question, empties answers_received and scored_question_ids, and ends in
\* showing_question with question_started_at set when an online participant
\* other than the presenter exists, and otherwise in presenter_paused with
\* reason no_participants and no question_started_at; both of the game
\* state start_game would build in any reachable state and of the one it
\* leaves when it runs
C31_StartGame ==
    /\ [](\A c \in Users : MayStartGame(c) => StartedAsClaimed(started_state(user_id[c])))
    /\ [][used'.games = used.games + 1
            => /\ \E c \in Users : MayStartGame(c)
               /\ StartedAsClaimed(game_state')]_vars

\* the quiz was started with nobody but the presenter online
C31_Witness ==
    /\ used.games = 1
    /\ game_state.quiz_phase = "presenter_paused"
    /\ game_state.presenter_pause_reason = "no_participants"
    /\ game_state.question_started_at = NoTime
    /\ game_state.current_question_index = 0
    /\ game_state.current_question_id = SegQuestions(game_state.current_segment_id)[1].id
    /\ \E x \in DOMAIN game_state.participants : game_state.participants[x].online

\* an authorized next_question on a running quiz takes effect in this step:
\* of the handlers only it leaves showing_question with a later question or
\* ends the segment from an index that is the last
MayChangeQuestion(c) ==
    /\ user_id[c] # NoUser
    /\ game_state.questions # << >>
    /\ may_control_current(game_state, segments, user_id[c])

\* what next_question is to leave, of the outcome r it computed from the
\* state before; final says whether the phase at the end of a segment is to
\* be segment_complete itself
NextQuestionAsClaimed(r, final) ==
    LET gs == game_state
        z == apply_zero_scores_for_unanswered(gs, Db)
        next_index == gs.current_question_index + 1
    IN  /\ r.db = z.db
        /\ zero_fill_due(gs) => gs.current_question_id \in r.gs.scored_question_ids
        /\ next_index < Len(gs.questions) =>
              /\ r.gs.current_question_index = next_index
              /\ r.gs.current_question_id = gs.questions[next_index + 1].id
              /\ r.gs.answers_received = << >>
              /\ r.gs.question_started_at = now
              /\ r.gs.quiz_phase = "showing_question"
              /\ r.segs = segments
        /\ next_index >= Len(gs.questions) =>
              /\ r.gs.current_question_index = gs.current_question_index
              /\ r.segs[gs.current_segment_id].status = "completed"
              /\ \E i \in DOMAIN r.frames :
                    r.frames[i] = PhaseChanged("segment_complete",
                                               gs.current_question_index,
                                               Len(gs.questions))
              /\ IF final THEN r.gs.quiz_phase = "segment_complete"
                 ELSE r.gs.quiz_phase \in {"segment_complete", "mega_quiz_ready",
                                           "event_complete"}

\* C32: an authorized next_question first zero-fills the current question;
\* if a later question exists it advances current_question_index by exactly
\* 1, sets current_question_id to that question, empties answers_received,
\* sets question_started_at to now and enters showing_question; if the
\* current question is the last it enters segment_complete, marks the
\* segment completed and leaves current_question_index unchanged
C32_NextQuestion ==
    \A c \in Users :
        MayChangeQuestion(c) =>
            NextQuestionAsClaimed(next_question(game_state, Db, segments, now), TRUE)

\* C32, amended: as C32, except that at the last question the phase
\* segment_complete is entered and broadcast, and the handler then moves on
\* to mega_quiz_ready or event_complete when the segment it completed was
\* the last one open
C32_NextQuestionThenCompletion ==
    \A c \in Users :
        MayChangeQuestion(c) =>
            NextQuestionAsClaimed(next_question(game_state, Db, segments, now), FALSE)

\* next_question at the last question of the last open segment has
\* completed the segment and left the phase mega_quiz_ready, the index
\* still that of the last question
C32_Witness ==
    /\ game_state.questions # << >>
    /\ game_state.current_question_index = Len(game_state.questions) - 1
    /\ game_state.current_question_id \in game_state.scored_question_ids
    /\ \A s \in Segs : segments[s].status = "completed"
    /\ game_state.quiz_phase = "mega_quiz_ready"

\* C33: in every reachable state in which the session holds a non-empty
\* question list, 0 <= current_question_index < total_questions,
\* total_questions is the length of the list and current_question_id is the
\* id of the question at current_question_index
C33_QuestionIndexInList ==
    game_state.questions # << >> =>
        /\ 0 <= game_state.current_question_index
        /\ game_state.current_question_index < game_state.total_questions
        /\ game_state.total_questions = Len(game_state.questions)
        /\ game_state.current_question_id
              = game_state.questions[game_state.current_question_index + 1].id

\* the quiz is past its first question, here after a pause and a resume of
\* the question
C33_Witness ==
    /\ game_state.questions # << >>
    /\ game_state.current_question_index = 1
    /\ game_state.current_question_id = game_state.questions[2].id
    /\ game_state.quiz_phase = "showing_question"
    /\ used.drops > 0

\* the frames hold a phase_changed broadcast with the phase, the question
\* index and the number of questions the step leaves
AnnouncesNewPhase(frames) ==
    \E i \in DOMAIN frames :
        frames[i] = PhaseChanged(game_state'.quiz_phase,
                                 game_state'.current_question_index,
                                 game_state'.total_questions)

\* the step is one of a handler whose frames announce the phase it leaves
AnnouncedByHandler ==
    \/ \E c \in Users : Join(c) /\ AnnouncesNewPhase(JoinFrames(c))
    \/ \E c \in Users : Disconnect(c) /\ AnnouncesNewPhase(DisconnectFrames(c))
    \/ \E c \in Users : StartGame(c) /\ AnnouncesNewPhase(StartGameFrames(c))
    \/ \E c \in Users : NextQuestion(c) /\ AnnouncesNewPhase(NextQuestionFrames(c))
    \/ \E c \in Users : RevealAnswer(c) /\ AnnouncesNewPhase(RevealAnswerFrames(c))
    \/ \E c \in Users : ShowLeaderboard(c) /\ AnnouncesNewPhase(ShowLeaderboardFrames(c))
    \/ \E c \in Users : EndGame(c) /\ AnnouncesNewPhase(EndGameFrames(c))
    \/ \E c \in Users : SkipMegaQuiz(c) /\ AnnouncesNewPhase(SkipMegaQuizFrames(c))
    \/ \E c \in Users, s \in Segs, p \in Players :
          AdminSelectPresenter(c, s, p) /\ AnnouncesNewPhase(AdminSelectPresenterFrames(c, s, p))
    \/ \E c \in Users, p \in Users :
          PassPresenter(c, p) /\ AnnouncesNewPhase(PassPresenterFrames(c, p))
    \/ \E c \in Users : DisconnectAgain(c) /\ AnnouncesNewPhase(DisconnectFrames(c))
    \/ \E c \in Users, s \in Segs, p \in Players :
          AdminSelectPresenterAgain(c, s, p)
             /\ AnnouncesNewPhase(AdminSelectPresenterFrames(c, s, p))

\* C34: every change of quiz_phase is accompanied by a phase_changed
\* broadcast that carries the new phase, the current question_index and
\* total_questions, the changes made by a presenter's reconnect and by a
\* participant's arrival during a pause included
C34_PhaseChangeAnnounced ==
    [][game_state'.quiz_phase # game_state.quiz_phase => AnnouncedByHandler]_vars

\* the step is a write of Hub.broadcast to a recipient's socket
BroadcastWrites == broadcasting'.sent # broadcasting.sent

\* C35: the hub never writes to a participant's connection while it holds
\* the hub lock: broadcast copies the connection set under the lock,
\* releases it and only then sends, so that connect, disconnect, reconnect
\* and add_participant of other participants can proceed while a write of
\* the broadcast is pending
C35_NoWriteUnderLock ==
    /\ [][BroadcastWrites => hub_lock_free]_vars
    /\ [](broadcasting.pc = "sending" => hub_lock_free)

\* while the broadcast still has a recipient of its snapshot to write to,
\* one participant has connected and another has been disconnected
C35_Witness ==
    /\ broadcasting.pc = "sending"
    /\ broadcasting.pending # {}
    /\ broadcasting.delivered # {}
    /\ connections \ broadcasting.snapshot # {}
    /\ broadcasting.snapshot \ (connections \cup broadcasting.failed) # {}

\* the last pong, or the start of the connection, of a connected participant
\* is older than the grace period
PastGrace(u) == now - fn_args.active_heartbeats[u] > 30 * 1000000

\* C36: stale-connection cleanup moves every connected participant whose
\* last pong (or connection start) is more than the 30-second grace period
\* old to temporarily_disconnected, removes the connection and sets online
\* to false, while the ParticipantInfo and any recorded answer stay in the
\* session; a participant with a pong inside the grace period is left
\* connected
C36_CleanupMarksStale ==
    [][fn_out'.op = "cleanup" =>
         /\ DOMAIN game_state'.participants = DOMAIN game_state.participants
         /\ game_state'.answers_received = game_state.answers_received
         /\ \A u \in connections :
               /\ PastGrace(u) =>
                     /\ u \notin connections'
                     /\ connection_states'[u] = "temporarily_disconnected"
                     /\ game_state'.participants[u]
                           = [game_state.participants[u] EXCEPT !.online = FALSE]
               /\ ~ PastGrace(u) =>
                     /\ u \in connections'
                     /\ connection_states'[u] = "connected"
                     /\ game_state'.participants[u] = game_state.participants[u]
    ]_vars

\* the cleanup has disconnected a participant who had answered and was past
\* the grace period, and has left connected one whose heartbeat was exactly
\* as old as the grace period
C36_Witness ==
    /\ fn_out.op = "cleanup"
    /\ \E u \in fn_out.stale :
          /\ u \in DOMAIN game_state.answers_received
          /\ connection_states[u] = "temporarily_disconnected"
          /\ ~ game_state.participants[u].online
    /\ \E v \in connections : fn_args.active_heartbeats[v] = 10000000

\* the handler of socket c processes the close of the socket in this step,
\* after another socket has joined for the same participant
StaleCloseProcessed(c) ==
    /\ user_id[c] = c
    /\ user_id'[c] = NoUser
    /\ \E c2 \in Users \ {c} : user_id[c2] = c

\* C37: if a participant opens a new connection before the server has
\* processed the close of the previous one, processing the stale close does
\* not remove the new connection, does not mark the participant offline or
\* temporarily_disconnected and does not pause the quiz
C37_StaleCloseHarmless ==
    [][\A c \in Users :
          StaleCloseProcessed(c) =>
             /\ user_id[c] \in connections'
             /\ connection_states'[user_id[c]] = "connected"
             /\ game_state'.participants[user_id[c]].online
             /\ game_state'.presenter_paused = game_state.presenter_paused
             /\ game_state'.quiz_phase = game_state.quiz_phase]_vars

\* C38: questions_answered of a participant for a segment is incremented at
\* most once for each question shown, by an admitted answer or by a
\* zero-fill and never both, so that it never exceeds the number of
\* questions of the segment
C38_AnsweredAtMostOncePerQuestion ==
    \A s \in Segs, u \in Users : QuestionsAnswered(s, u) <= Len(SegQuestions(s))

\* C38, for the segment whose questions the quiz shows
C38_FirstSegmentOnly ==
    \A u \in Users : QuestionsAnswered("s1", u) <= Len(SegQuestions("s1"))

\* C39: an answer is admitted only while quiz_phase is showing_question:
\* once reveal_answer, end_game or the completion of the segment has been
\* processed for the current question, no later answer for it adds an entry
\* to answers_received or changes a score, even inside the time limit
C39_AdmittedOnlyWhileShowing ==
    \A c \in Players, q \in 1..NumQuestions, a \in Answers :
        game_state.quiz_phase # "showing_question" =>
            /\ ~ answer_admitted(c, q)
            /\ answer_outcome(c, q, a).gs = game_state
            /\ answer_outcome(c, q, a).db = Db

\* the session is paused for want of participants and no participant other
\* than the current presenter is connected
PausedWithPresenterOnly ==
    /\ game_state.presenter_paused
    /\ game_state.presenter_pause_reason = "no_participants"
    /\ connections \subseteq {game_state.current_presenter_id}
    /\ \A x \in DOMAIN game_state.participants :
          x # game_state.current_presenter_id => ~ game_state.participants[x].online

\* C40: a quiz paused with reason no_participants is resumed by a join only
\* when the joiner is a participant other than the current presenter: a
\* join message from the presenter alone, with no other participant online,
\* leaves the session paused
C40_PresenterJoinKeepsPause ==
    [][\A c \in Users :
          (PausedWithPresenterOnly /\ c = game_state.current_presenter_id /\ Join(c))
             => /\ game_state'.presenter_paused
                /\ game_state'.presenter_pause_reason = "no_participants"
                /\ game_state'.quiz_phase = "presenter_paused"]_vars

====
